---- MODULE Spec2Model ----
(***************************************************************************)
(* A model of aftltool.py: the AFTL image container (header, inclusion     *)
(* proof entries, Trillian log root descriptor, firmware info leaf), the   *)
(* RFC 6962 root recomputation and the verification of an entry.           *)
(*                                                                         *)
(* Byte strings are sequences of integers 0..255.  Integers are packed     *)
(* big-endian with the widths of the struct format strings.  A SHA-256     *)
(* digest is a byte string of length DigestLen whose single element is the *)
(* term <<"sha256", message>>: an injective (collision free) hash.         *)
(***************************************************************************)
EXTENDS Integers, Sequences, FiniteSets, TLC

VARIABLES pc, image, data, parsed, output, args, result, first, requests,
          workers, processes, result_queue, results

\* the state of a load test: the worker processes, the set of processes the
\* collector still waits for, the result queue and the results collected
load == <<workers, processes, result_queue, results>>

\* no load test is running
NoLoadTest ==
  /\ workers = <<>>
  /\ processes = {}
  /\ result_queue = <<>>
  /\ results = <<>>

vars == <<pc, image, data, parsed, output, args, result, first, requests, load>>

(***************************************************************************)
(* Results of constructors and of encode(): a value or the exception.      *)
(***************************************************************************)
Ok(o) == [err |-> "none", obj |-> o]

Err(e) == [err |-> e, obj |-> <<>>]

Nothing == [err |-> "unset", obj |-> <<>>]

IsOk(r) == r.err = "none"

(***************************************************************************)
(* Python slices and struct packing.                                       *)
(***************************************************************************)
Min(a, b) == IF a < b THEN a ELSE b

\* data[a:b] for 0 <= a, 0 <= b
Slice(s, a, b) ==
  IF a >= Min(b, Len(s)) THEN <<>> ELSE SubSeq(s, a + 1, Min(b, Len(s)))

\* data[a:]
SliceFrom(s, a) == Slice(s, a, Len(s))

RECURSIVE BE(_, _)
\* struct.pack of one unsigned integer, big-endian, w bytes
BE(v, w) == IF w = 0 THEN <<>> ELSE BE(v \div 256, w - 1) \o <<v % 256>>

RECURSIVE UBE(_)
\* struct.unpack of one unsigned integer, big-endian
UBE(s) ==
  IF s = <<>> THEN 0
  ELSE UBE(SubSeq(s, 1, Len(s) - 1)) * 256 + s[Len(s)]

\* struct.pack raises struct.error when the value does not fit the field
Fits(v, w) ==
  /\ v >= 0
  /\ (w = 1 => v < 256)
  /\ (w = 2 => v < 65536)

RECURSIVE Zeros(_)
Zeros(n) == IF n <= 0 THEN <<>> ELSE <<0>> \o Zeros(n - 1)

\* struct.pack of 'Ns': the bytes cut or NUL-padded to n
PackS(s, n) == IF Len(s) >= n THEN Slice(s, 0, n) ELSE s \o Zeros(n - Len(s))

RECURSIVE Concat(_)
Concat(ss) == IF ss = <<>> THEN <<>> ELSE ss[1] \o Concat(Tail(ss))

RECURSIVE SumLen(_)
SumLen(ss) == IF ss = <<>> THEN 0 ELSE Len(ss[1]) + SumLen(Tail(ss))

(***************************************************************************)
(* TrillianLogRootDescriptor                                               *)
(***************************************************************************)
DESC_PART_1_SIZE == 11

DESC_PART_2_SIZE == 18

MAX_ROOT_HASH_SIZE == 128

MAX_METADATA_SIZE == 65535

TrillianLogRootDescriptor_default ==
  [version |-> 1, tree_size |-> 0, root_hash_size |-> 0, root_hash |-> <<>>,
   timestamp |-> 0, revision |-> 0, metadata_size |-> 0, metadata |-> <<>>]

\* TrillianLogRootDescriptor.is_valid without the check of the version
TrillianLogRootDescriptor_is_valid_AnyVersion(d) ==
  /\ d.tree_size >= 0
  /\ d.root_hash_size >= 0 /\ d.root_hash_size <= MAX_ROOT_HASH_SIZE
  /\ Len(d.root_hash) = d.root_hash_size
  /\ d.timestamp >= 0
  /\ d.revision >= 0
  /\ d.metadata_size >= 0 /\ d.metadata_size <= MAX_METADATA_SIZE
  /\ Len(d.metadata) = d.metadata_size

TrillianLogRootDescriptor_is_valid(d) ==
  /\ d.version = 1
  /\ d.tree_size >= 0
  /\ d.root_hash_size >= 0 /\ d.root_hash_size <= MAX_ROOT_HASH_SIZE
  /\ Len(d.root_hash) = d.root_hash_size
  /\ d.timestamp >= 0
  /\ d.revision >= 0
  /\ d.metadata_size >= 0 /\ d.metadata_size <= MAX_METADATA_SIZE
  /\ Len(d.metadata) = d.metadata_size

\* the fields read from non-empty data; struct.error when a part is short
TrillianLogRootDescriptor_unpack(b) ==
  LET p1   == Slice(b, 0, DESC_PART_1_SIZE)
      rhs  == UBE(Slice(p1, 10, 11))
      d1   == SliceFrom(b, DESC_PART_1_SIZE)
      rh   == IF rhs > 0 THEN Slice(d1, 0, rhs) ELSE <<>>
      d2   == IF rhs > 0 THEN SliceFrom(d1, rhs) ELSE d1
      p2   == Slice(d2, 0, DESC_PART_2_SIZE)
      ms   == UBE(Slice(p2, 16, 18))
      d3   == SliceFrom(d2, DESC_PART_2_SIZE)
  IN  IF Len(p1) # DESC_PART_1_SIZE \/ Len(p2) # DESC_PART_2_SIZE
      THEN Err("struct.error")
      ELSE Ok([version        |-> UBE(Slice(p1, 0, 2)),
               tree_size      |-> UBE(Slice(p1, 2, 10)),
               root_hash_size |-> rhs,
               root_hash      |-> rh,
               timestamp      |-> UBE(Slice(p2, 0, 8)),
               revision       |-> UBE(Slice(p2, 8, 16)),
               metadata_size  |-> ms,
               metadata       |-> IF ms > 0 THEN Slice(d3, 0, ms) ELSE <<>>])

TrillianLogRootDescriptor_init(b) ==
  LET r == IF b = <<>> THEN Ok(TrillianLogRootDescriptor_default)
           ELSE TrillianLogRootDescriptor_unpack(b)
  IN  IF ~IsOk(r) THEN r
      ELSE IF ~TrillianLogRootDescriptor_is_valid(r.obj) THEN Err("AftlError")
      ELSE r

TrillianLogRootDescriptor_get_expected_size(d) ==
  DESC_PART_1_SIZE + d.root_hash_size + DESC_PART_2_SIZE + d.metadata_size

\* pack with revision written before timestamp
TrillianLogRootDescriptor_pack_Swapped(d) ==
  BE(d.version, 2) \o BE(d.tree_size, 8) \o BE(d.root_hash_size, 1)
    \o PackS(d.root_hash, d.root_hash_size)
    \o BE(d.revision, 8) \o BE(d.timestamp, 8) \o BE(d.metadata_size, 2)
    \o PackS(d.metadata, d.metadata_size)

TrillianLogRootDescriptor_pack(d) ==
  BE(d.version, 2) \o BE(d.tree_size, 8) \o BE(d.root_hash_size, 1)
    \o PackS(d.root_hash, d.root_hash_size)
    \o BE(d.timestamp, 8) \o BE(d.revision, 8) \o BE(d.metadata_size, 2)
    \o PackS(d.metadata, d.metadata_size)

TrillianLogRootDescriptor_encode(d) ==
  IF ~TrillianLogRootDescriptor_is_valid(d) THEN Err("AftlError")
  ELSE Ok(TrillianLogRootDescriptor_pack(d))

(***************************************************************************)
(* FirmwareInfoLeaf.  json.loads is a table over the documents of the      *)
(* model: the text before and after the innermost object is fixed, the     *)
(* innermost object is {}, {"foo":1} or {"vbmeta_hash":"<text>"}; any      *)
(* other text is not a JSON document (ValueError).  The dict maps a key to *)
(* the text of its value.  The base64 text of a digest is, like the digest,*)
(* one term: b64encode(d) has the single element [b64 |-> d].              *)
(***************************************************************************)
\* {"Value":{"FwInfo":{"info":{"info":
JSON_PATH_OPEN ==
  <<123, 34, 86, 97, 108, 117, 101, 34, 58, 123, 34, 70, 119, 73, 110, 102, 111, 34, 58, 123, 34, 105, 110, 102, 111, 34, 58, 123, 34, 105, 110, 102, 111, 34, 58>>

\* }}}}
JSON_PATH_CLOSE == <<125, 125, 125, 125>>

\* {}
JSON_NO_FIELDS == <<123, 125>>

\* {"vbmeta_hash":"AQ=="}
JSON_VBMETA_HASH == <<123, 34, 118, 98, 109, 101, 116, 97, 95, 104, 97, 115, 104, 34, 58, 34, 65, 81, 61, 61, 34, 125>>

\* {"foo":1}
JSON_UNKNOWN_KEY == <<123, 34, 102, 111, 111, 34, 58, 49, 125>>

\* {"vbmeta_hash":"
JSON_HASH_OPEN == <<123, 34, 118, 98, 109, 101, 116, 97, 95, 104, 97, 115, 104, 34, 58, 34>>

\* "}
JSON_HASH_CLOSE == <<34, 125>>

LeafDoc(inner) == JSON_PATH_OPEN \o inner \o JSON_PATH_CLOSE

\* the leaf a log stores for a firmware whose vbmeta_hash has the base64 text
HashDoc(text) == LeafDoc(JSON_HASH_OPEN \o text \o JSON_HASH_CLOSE)

\* dict()
EmptyDict == [k \in {} |-> <<>>]

FIRMWARE_INFO_FIELDS ==
  {"vbmeta_hash", "version_incremental", "platform_key",
   "manufacturer_key_hash", "description"}

\* the whitespace json.loads skips around a document
JSON_WHITESPACE == {32, 10, 13, 9}

\* {"Value":5}
JSON_VALUE_NUMBER == <<123, 34, 86, 97, 108, 117, 101, 34, 58, 53, 125>>

\* {"Value":{}}
JSON_VALUE_EMPTY == <<123, 34, 86, 97, 108, 117, 101, 34, 58, 123, 125, 125>>

\* 5 and [] in the place of the innermost object
JSON_NOT_OBJECTS == {<<53>>, <<91, 93>>}

RECURSIVE json_strip(_)
json_strip(b) ==
  IF b = <<>> THEN b
  ELSE IF b[1] \in JSON_WHITESPACE THEN json_strip(SliceFrom(b, 1))
  ELSE IF b[Len(b)] \in JSON_WHITESPACE
       THEN json_strip(Slice(b, 0, Len(b) - 1))
  ELSE b

\* json.loads(data)['Value']['FwInfo']['info']['info']; where that value is
\* no object the error is the AttributeError of its missing keys(), which
\* is_valid() raises right after
json_info(b) ==
  LET open  == JSON_PATH_OPEN \o JSON_HASH_OPEN
      close == JSON_HASH_CLOSE \o JSON_PATH_CLOSE
      info(d) ==
        IF d = LeafDoc(JSON_NO_FIELDS) THEN Ok(EmptyDict)
        ELSE IF d = LeafDoc(JSON_UNKNOWN_KEY) THEN Ok([foo |-> <<49>>])
        ELSE IF d = JSON_NO_FIELDS \/ d = JSON_VALUE_EMPTY
             THEN Err("KeyError")
        ELSE IF d = JSON_VALUE_NUMBER THEN Err("TypeError")
        ELSE IF \E v \in JSON_NOT_OBJECTS : d = LeafDoc(v)
             THEN Err("AttributeError")
        ELSE IF /\ Len(d) >= Len(open) + Len(close)
                /\ Slice(d, 0, Len(open)) = open
                /\ SliceFrom(d, Len(d) - Len(close)) = close
             THEN Ok([vbmeta_hash |->
                        Slice(d, Len(open), Len(d) - Len(close))])
        ELSE Err("ValueError")
  IN  info(json_strip(b))

\* FirmwareInfoLeaf.is_valid accepting every key
FirmwareInfoLeaf_is_valid_AnyKey(l) == TRUE

FirmwareInfoLeaf_is_valid(l) == DOMAIN l.dict \subseteq FIRMWARE_INFO_FIELDS

FirmwareInfoLeaf_init(b) ==
  LET made(j) ==
        IF b = <<>> THEN [bytes |-> <<>>, dict |-> EmptyDict]
        ELSE [bytes |-> b, dict |-> IF IsOk(j) THEN j.obj ELSE EmptyDict]
      checked(j) ==
        IF b # <<>> /\ j.err \in {"ValueError", "KeyError"}
        THEN Err("AftlError")
        ELSE IF b # <<>> /\ ~IsOk(j) THEN j
        ELSE IF ~FirmwareInfoLeaf_is_valid(made(j)) THEN Err("AftlError")
        ELSE Ok(made(j))
  IN  checked(json_info(b))

FirmwareInfoLeaf_get_expected_size(l) ==
  IF l.bytes = <<>> THEN 0 ELSE Len(l.bytes)

FirmwareInfoLeaf_encode(l) == l.bytes

(***************************************************************************)
(* AftlIcpEntry                                                            *)
(***************************************************************************)
ICP_ENTRY_SIZE == 27

IsAscii(s) == \A k \in 1..Len(s) : s[k] < 128

AftlIcpEntry_default ==
  [leaf_index |-> 0, log_url |-> <<>>,
   log_root_descriptor |-> TrillianLogRootDescriptor_default,
   fw_info_leaf |-> [bytes |-> <<>>, dict |-> EmptyDict],
   log_root_signature |-> <<>>, proofs |-> <<>>]

AftlIcpEntry_is_valid(e) ==
  /\ e.leaf_index >= 0
  /\ TrillianLogRootDescriptor_is_valid(e.log_root_descriptor)

AftlIcpEntry_log_url_size(e) == Len(e.log_url)

AftlIcpEntry_log_root_descriptor_size(e) ==
  TrillianLogRootDescriptor_get_expected_size(e.log_root_descriptor)

AftlIcpEntry_fw_info_leaf_size(e) ==
  FirmwareInfoLeaf_get_expected_size(e.fw_info_leaf)

AftlIcpEntry_log_root_sig_size(e) == Len(e.log_root_signature)

AftlIcpEntry_proof_hash_count(e) == Len(e.proofs)

AftlIcpEntry_inc_proof_size(e) == SumLen(e.proofs)

AftlIcpEntry_get_expected_size(e) ==
  ICP_ENTRY_SIZE + AftlIcpEntry_log_url_size(e)
    + AftlIcpEntry_log_root_descriptor_size(e)
    + AftlIcpEntry_fw_info_leaf_size(e) + AftlIcpEntry_log_root_sig_size(e)
    + AftlIcpEntry_inc_proof_size(e)

\* the seven fields of the 27-byte header
AftlIcpEntry_unpack_header(h) ==
  [log_url_size             |-> UBE(Slice(h, 0, 4)),
   leaf_index               |-> UBE(Slice(h, 4, 12)),
   log_root_descriptor_size |-> UBE(Slice(h, 12, 16)),
   fw_info_leaf_size        |-> UBE(Slice(h, 16, 20)),
   log_root_sig_size        |-> UBE(Slice(h, 20, 22)),
   proof_hash_count         |-> UBE(Slice(h, 22, 23)),
   inc_proof_size           |-> UBE(Slice(h, 23, 27))]

\* the list of proof_hash_count slices of inc_proof_size // proof_hash_count
AftlIcpEntry_split_proofs(proof_bytes, count, inc_proof_size) ==
  IF count > 0
  THEN LET hash_size == inc_proof_size \div count
       IN  [k \in 1..count |->
              Slice(proof_bytes, (k - 1) * hash_size, k * hash_size)]
  ELSE <<>>

AftlIcpEntry_parse(b) ==
  LET \* the fields, once the header h and the offsets o1..o6 are known
      fields(h, o1, o2, o3, o4, o5, o6, url, desc, leaf) ==
        IF Len(b) < ICP_ENTRY_SIZE THEN Err("struct.error")
        ELSE IF Len(Slice(b, o1, o6)) # o6 - o1 THEN Err("struct.error")
        ELSE IF ~IsAscii(url) THEN Err("UnicodeDecodeError")
        ELSE IF ~IsOk(desc) THEN desc
        ELSE IF ~IsOk(leaf) THEN leaf
        ELSE Ok([leaf_index |-> h.leaf_index, log_url |-> url,
                 log_root_descriptor |-> desc.obj,
                 fw_info_leaf |-> leaf.obj,
                 log_root_signature |-> Slice(b, o4, o5),
                 proofs |-> AftlIcpEntry_split_proofs(
                              Slice(b, o5, o6), h.proof_hash_count,
                              h.inc_proof_size)])
      at(h, o1, o2, o3, o4, o5, o6) ==
        fields(h, o1, o2, o3, o4, o5, o6, Slice(b, o1, o2),
               TrillianLogRootDescriptor_init(Slice(b, o2, o3)),
               FirmwareInfoLeaf_init(Slice(b, o3, o4)))
      sig(h, o1, o2, o3, o4) ==
        at(h, o1, o2, o3, o4, o4 + h.log_root_sig_size,
           o4 + h.log_root_sig_size + h.inc_proof_size)
      root(h, o1, o2) ==
        sig(h, o1, o2, o2 + h.log_root_descriptor_size,
            o2 + h.log_root_descriptor_size + h.fw_info_leaf_size)
      header(h) == root(h, ICP_ENTRY_SIZE, ICP_ENTRY_SIZE + h.log_url_size)
  IN  header(AftlIcpEntry_unpack_header(Slice(b, 0, ICP_ENTRY_SIZE)))

AftlIcpEntry_init(b) ==
  LET checked(r) ==
        IF ~IsOk(r) THEN r
        ELSE IF ~AftlIcpEntry_is_valid(r.obj) THEN Err("AftlError")
        ELSE r
  IN  checked(IF b = <<>> THEN Ok(AftlIcpEntry_default)
              ELSE AftlIcpEntry_parse(b))

\* AftlIcpEntry.encode packing the proof size into the proof count field
AftlIcpEntry_pack_CountIsSize(e) ==
  BE(AftlIcpEntry_log_url_size(e), 4) \o BE(e.leaf_index, 8)
    \o BE(AftlIcpEntry_log_root_descriptor_size(e), 4)
    \o BE(AftlIcpEntry_fw_info_leaf_size(e), 4)
    \o BE(AftlIcpEntry_log_root_sig_size(e), 2)
    \o BE(AftlIcpEntry_inc_proof_size(e), 1)
    \o BE(AftlIcpEntry_inc_proof_size(e), 4)
    \o PackS(e.log_url, AftlIcpEntry_log_url_size(e))
    \o PackS(TrillianLogRootDescriptor_pack(e.log_root_descriptor),
             AftlIcpEntry_log_root_descriptor_size(e))
    \o PackS(FirmwareInfoLeaf_encode(e.fw_info_leaf),
             AftlIcpEntry_fw_info_leaf_size(e))
    \o PackS(e.log_root_signature, AftlIcpEntry_log_root_sig_size(e))
    \o PackS(Concat(e.proofs), AftlIcpEntry_inc_proof_size(e))

AftlIcpEntry_pack(e) ==
  BE(AftlIcpEntry_log_url_size(e), 4) \o BE(e.leaf_index, 8)
    \o BE(AftlIcpEntry_log_root_descriptor_size(e), 4)
    \o BE(AftlIcpEntry_fw_info_leaf_size(e), 4)
    \o BE(AftlIcpEntry_log_root_sig_size(e), 2)
    \o BE(AftlIcpEntry_proof_hash_count(e), 1)
    \o BE(AftlIcpEntry_inc_proof_size(e), 4)
    \o PackS(e.log_url, AftlIcpEntry_log_url_size(e))
    \o PackS(TrillianLogRootDescriptor_pack(e.log_root_descriptor),
             AftlIcpEntry_log_root_descriptor_size(e))
    \o PackS(FirmwareInfoLeaf_encode(e.fw_info_leaf),
             AftlIcpEntry_fw_info_leaf_size(e))
    \o PackS(e.log_root_signature, AftlIcpEntry_log_root_sig_size(e))
    \o PackS(Concat(e.proofs), AftlIcpEntry_inc_proof_size(e))

AftlIcpEntry_encode(e) ==
  IF ~AftlIcpEntry_is_valid(e) THEN Err("AftlError")
  ELSE IF ~IsAscii(e.log_url) THEN Err("UnicodeEncodeError")
  ELSE IF ~Fits(AftlIcpEntry_log_root_sig_size(e), 2)
          \/ ~Fits(AftlIcpEntry_proof_hash_count(e), 1)
       THEN Err("struct.error")
  ELSE Ok(AftlIcpEntry_pack(e))

(***************************************************************************)
(* AftlImageHeader                                                         *)
(***************************************************************************)
IMAGE_HEADER_SIZE == 18

\* b'AFTL'
MAGIC == <<65, 70, 84, 76>>

AVB_VERSION_MAJOR == 1

AVB_VERSION_MINOR == 2

MAX_ICP_COUNT == 65535

AftlImageHeader_default ==
  [magic |-> MAGIC,
   required_icp_version_major |-> AVB_VERSION_MAJOR,
   required_icp_version_minor |-> AVB_VERSION_MINOR,
   aftl_image_size |-> IMAGE_HEADER_SIZE,
   icp_count |-> 0]

AftlImageHeader_is_valid(h) ==
  /\ h.magic = MAGIC
  /\ h.required_icp_version_major <= AVB_VERSION_MAJOR
  /\ h.required_icp_version_minor <= AVB_VERSION_MINOR
  /\ h.aftl_image_size >= IMAGE_HEADER_SIZE
  /\ h.icp_count >= 0 /\ h.icp_count <= MAX_ICP_COUNT

AftlImageHeader_unpack(b) ==
  IF Len(b) # IMAGE_HEADER_SIZE THEN Err("struct.error")
  ELSE Ok([magic |-> Slice(b, 0, 4),
           required_icp_version_major |-> UBE(Slice(b, 4, 8)),
           required_icp_version_minor |-> UBE(Slice(b, 8, 12)),
           aftl_image_size |-> UBE(Slice(b, 12, 16)),
           icp_count |-> UBE(Slice(b, 16, 18))])

AftlImageHeader_init(b) ==
  LET r == IF b = <<>> THEN Ok(AftlImageHeader_default)
           ELSE AftlImageHeader_unpack(b)
  IN  IF ~IsOk(r) THEN r
      ELSE IF ~AftlImageHeader_is_valid(r.obj) THEN Err("AftlError")
      ELSE r

AftlImageHeader_pack(h) ==
  PackS(h.magic, 4) \o BE(h.required_icp_version_major, 4)
    \o BE(h.required_icp_version_minor, 4) \o BE(h.aftl_image_size, 4)
    \o BE(h.icp_count, 2)

AftlImageHeader_encode(h) ==
  IF ~AftlImageHeader_is_valid(h) THEN Err("AftlError")
  ELSE Ok(AftlImageHeader_pack(h))

(***************************************************************************)
(* AftlImage                                                               *)
(***************************************************************************)
AftlImage_is_valid(img) ==
  /\ AftlImageHeader_is_valid(img.image_header)
  /\ img.image_header.icp_count = Len(img.icp_entries)
  /\ \A k \in 1..Len(img.icp_entries) :
       AftlIcpEntry_is_valid(img.icp_entries[k])

\* add_icp_entry that leaves aftl_image_size as it was
AftlImage_add_icp_entry_NoSize(img, icp_entry) ==
  [image_header |-> [img.image_header EXCEPT !.icp_count = @ + 1],
   icp_entries |-> Append(img.icp_entries, icp_entry)]

AftlImage_add_icp_entry(img, icp_entry) ==
  [image_header |->
     [img.image_header EXCEPT
        !.icp_count = @ + 1,
        !.aftl_image_size = @ + AftlIcpEntry_get_expected_size(icp_entry)],
   icp_entries |-> Append(img.icp_entries, icp_entry)]

RECURSIVE AftlImage_parse_entries(_, _, _, _)
\* the loop of AftlImage.__init__: n entries still to read from icp_index
AftlImage_parse_entries(b, img, icp_index, n) ==
  IF n = 0 THEN Ok(img)
  ELSE LET read(cur) ==
             IF ~IsOk(cur) THEN cur
             ELSE AftlImage_parse_entries(
                    b, AftlImage_add_icp_entry(img, cur.obj),
                    icp_index + AftlIcpEntry_get_expected_size(cur.obj),
                    n - 1)
       IN  read(AftlIcpEntry_init(SliceFrom(b, icp_index)))

AftlImage_init(b) ==
  LET entries(h) ==
        IF ~IsOk(h) THEN h
        ELSE AftlImage_parse_entries(
               b,
               [image_header |-> [h.obj EXCEPT !.icp_count = 0],
                icp_entries |-> <<>>],
               IMAGE_HEADER_SIZE, h.obj.icp_count)
      checked(r) ==
        IF ~IsOk(r) THEN r
        ELSE IF ~AftlImage_is_valid(r.obj) THEN Err("AftlError")
        ELSE r
  IN  checked(IF b = <<>>
              THEN Ok([image_header |-> AftlImageHeader_default,
                       icp_entries |-> <<>>])
              ELSE entries(AftlImageHeader_init(
                             Slice(b, 0, IMAGE_HEADER_SIZE))))

RECURSIVE AftlImage_encode_entries(_)
AftlImage_encode_entries(es) ==
  IF es = <<>> THEN Ok(<<>>)
  ELSE LET join(e, r) ==
             IF ~IsOk(e) THEN e
             ELSE IF ~IsOk(r) THEN r
             ELSE Ok(e.obj \o r.obj)
       IN  join(AftlIcpEntry_encode(es[1]),
                AftlImage_encode_entries(Tail(es)))

AftlImage_encode(img) ==
  LET join(h, es) ==
        IF ~AftlImage_is_valid(img) THEN Err("AftlError")
        ELSE IF ~IsOk(h) THEN h
        ELSE IF ~IsOk(es) THEN es
        ELSE Ok(h.obj \o es.obj)
  IN  join(AftlImageHeader_encode(img.image_header),
           AftlImage_encode_entries(img.icp_entries))

(***************************************************************************)
(* AftlIcpEntry.translate_response: the entry a log's response fills in.   *)
(***************************************************************************)
AftlIcpEntry_translate_response(log_url, leaf_index, log_root, leaf, log_root_signature, hashes) ==
  LET d == TrillianLogRootDescriptor_init(log_root)
      l == FirmwareInfoLeaf_init(leaf)
  IN  IF ~IsOk(d) THEN d
      ELSE IF ~IsOk(l) THEN l
      ELSE Ok([leaf_index |-> leaf_index, log_url |-> log_url,
               log_root_descriptor |-> d.obj, fw_info_leaf |-> l.obj,
               log_root_signature |-> log_root_signature,
               proofs |-> hashes])

(***************************************************************************)
(* Spec: an image is built empty, entries are added, it is encoded, the    *)
(* bytes are parsed again and the parsed image is encoded.                 *)
(***************************************************************************)
MaxEntries == 3

\* the log root bytes of a response: tree size, root hash, metadata
LogRootBytes(tree_size, root_hash, metadata) ==
  BE(1, 2) \o BE(tree_size, 8) \o BE(Len(root_hash), 1) \o root_hash
    \o BE(5, 8) \o BE(1, 8) \o BE(Len(metadata), 2) \o metadata

\* the entries a caller has at hand: a default one and two from responses
EntryPool ==
  { AftlIcpEntry_default,
    AftlIcpEntry_translate_response(
      <<97>>, 0, LogRootBytes(1, <<7>>, <<>>), LeafDoc(JSON_NO_FIELDS),
      <<9>>, <<>>).obj,
    AftlIcpEntry_translate_response(
      <<98, 99>>, 2, LogRootBytes(4, <<5, 6>>, <<8>>),
      LeafDoc(JSON_VBMETA_HASH), <<1, 2>>, << <<3, 4>>, <<5, 6>> >>).obj }

Init ==
  /\ pc = "build"
  /\ image = AftlImage_init(<<>>).obj
  /\ data = <<>>
  /\ parsed = Nothing
  /\ output = Nothing
  /\ args = <<>>
  /\ result = Nothing
  /\ first = Nothing
  /\ requests = <<>>
  /\ NoLoadTest

AddIcpEntry(e) ==
  /\ pc = "build"
  /\ Len(image.icp_entries) < MaxEntries
  /\ image' = AftlImage_add_icp_entry(image, e)
  /\ UNCHANGED <<pc, data, parsed, output, args, result, first, requests, load>>

Encode ==
  /\ pc = "build"
  /\ output' = AftlImage_encode(image)
  /\ pc' = "encoded"
  /\ UNCHANGED <<image, data, parsed, args, result, first, requests, load>>

Parse ==
  /\ pc = "encoded"
  /\ IsOk(output)
  /\ data' = output.obj
  /\ parsed' = AftlImage_init(output.obj)
  /\ pc' = "parsed"
  /\ UNCHANGED <<image, output, args, result, first, requests, load>>

Reencode ==
  /\ pc = "parsed"
  /\ IsOk(parsed)
  /\ output' = AftlImage_encode(parsed.obj)
  /\ pc' = "reencoded"
  /\ UNCHANGED <<image, data, parsed, args, result, first, requests, load>>

Next ==
  \/ \E e \in EntryPool : AddIcpEntry(e)
  \/ Encode
  \/ Parse
  \/ Reencode

Spec == Init /\ [][Next]_vars

RECURSIVE SumExpectedSize(_)
SumExpectedSize(es) ==
  IF es = <<>> THEN 0
  ELSE AftlIcpEntry_get_expected_size(es[1]) + SumExpectedSize(Tail(es))

\* C1: an image built empty and grown by add_icp_entry has, in every state,
\* icp_count = len(icp_entries) and aftl_image_size = 18 + the sum of the
\* entries' expected sizes (0 and 18 for the empty image).
C1_HeaderTracksEntries ==
  /\ image.image_header.icp_count = Len(image.icp_entries)
  /\ image.image_header.aftl_image_size
       = 18 + SumExpectedSize(image.icp_entries)
  /\ (image.icp_entries = <<>> =>
        /\ image.image_header.icp_count = 0
        /\ image.image_header.aftl_image_size = 18)

C1_Witness ==
  /\ Len(image.icp_entries) = 2
  /\ image.icp_entries[1] # image.icp_entries[2]
  /\ image.image_header.aftl_image_size > 18 + 2 * 56

\* the header fields the parsed bytes declare
DeclaredCount == UBE(Slice(data, 16, 18))

DeclaredSize == UBE(Slice(data, 12, 16))

\* C2: an image parsed from bytes whose header declares count k and total
\* size 18 + the entries' sizes has icp_count = the number of parsed entries
\* and aftl_image_size = 18 + the sum of the parsed entries' sizes.
C2_ParsedHeaderTracksEntries ==
  (/\ pc \in {"parsed", "reencoded"}
   /\ IsOk(parsed)
   /\ DeclaredCount = Len(parsed.obj.icp_entries)
   /\ DeclaredSize = 18 + SumExpectedSize(parsed.obj.icp_entries))
  => /\ parsed.obj.image_header.icp_count = Len(parsed.obj.icp_entries)
     /\ parsed.obj.image_header.aftl_image_size
          = 18 + SumExpectedSize(parsed.obj.icp_entries)

\* C3: for valid image bytes b, AftlImage(b).encode() = b byte for byte.
C3_ImageBytesRoundTrip ==
  pc = "reencoded" => IsOk(output) /\ output.obj = data

\* C4: parsing the encoding of a built image gives an image equal to it:
\* the same header fields and the same entries in the same order.
C4_ImageObjectRoundTrip ==
  pc = "parsed" => IsOk(parsed) /\ parsed.obj = image

(***************************************************************************)
(* SpecRoot: a log root descriptor is parsed from bytes and encoded.  The  *)
(* bytes are laid out field by field from args; declared sizes need not    *)
(* agree with the payloads, so invalid inputs are among them.              *)
(***************************************************************************)
MaxHashLen == 2

SampleBytes == {3, 200}

RECURSIVE BytesUpTo(_)
\* the byte strings over SampleBytes of length at most n
BytesUpTo(n) ==
  IF n = 0 THEN {<<>>}
  ELSE BytesUpTo(n - 1)
         \cup {Append(s, c) : s \in {t \in BytesUpTo(n - 1) : Len(t) = n - 1},
                              c \in SampleBytes}

\* root hashes of the largest size a descriptor may declare, and one more
LongHashes ==
  {[k \in 1..n |-> 0] : n \in {MAX_ROOT_HASH_SIZE, MAX_ROOT_HASH_SIZE + 1}}

WireDescriptor(f) ==
  BE(f.version, 2) \o BE(f.tree_size, 8) \o BE(f.root_hash_size, 1)
    \o f.root_hash \o BE(f.timestamp, 8) \o BE(f.revision, 8)
    \o BE(f.metadata_size, 2) \o f.metadata

InitRoot ==
  /\ pc = "input"
  /\ \E v \in {1, 2}, t \in {0, 300},
        rh \in BytesUpTo(MaxHashLen) \cup LongHashes,
        md \in BytesUpTo(MaxHashLen), rhx \in {0, 1},
        mdx \in {-1, 0, 1} :
       /\ Len(md) + mdx >= 0
       /\ args = [version |-> v, tree_size |-> t,
                  root_hash_size |-> Len(rh) + rhx, root_hash |-> rh,
                  timestamp |-> 258, revision |-> 70000,
                  metadata_size |-> Len(md) + mdx, metadata |-> md]
  /\ data = WireDescriptor(args)
  /\ parsed = Nothing
  /\ output = Nothing
  /\ image = <<>>
  /\ result = Nothing
  /\ first = Nothing
  /\ requests = <<>>
  /\ NoLoadTest

ParseDescriptor ==
  /\ pc = "input"
  /\ parsed' = TrillianLogRootDescriptor_init(data)
  /\ pc' = "parsed"
  /\ UNCHANGED <<image, data, output, args, result, first, requests, load>>

EncodeDescriptor ==
  /\ pc = "parsed"
  /\ IsOk(parsed)
  /\ output' = TrillianLogRootDescriptor_encode(parsed.obj)
  /\ pc' = "encoded"
  /\ UNCHANGED <<image, data, parsed, args, result, first, requests, load>>

NextRoot == ParseDescriptor \/ EncodeDescriptor

SpecRoot == InitRoot /\ [][NextRoot]_vars

\* the input is a well-formed descriptor: version 1 and the declared sizes
\* are the sizes of the payloads laid out
ValidDescriptorArgs(f) ==
  /\ f.version = 1
  /\ f.root_hash_size = Len(f.root_hash) /\ f.root_hash_size <= 128
  /\ f.metadata_size = Len(f.metadata)

\* C6: a valid serialized descriptor b parses to the fields laid out in the
\* order version, tree_size, root_hash_size, root_hash, timestamp, revision,
\* metadata_size, metadata, and TrillianLogRootDescriptor(b).encode() = b.
C6_DescriptorRoundTrip ==
  ValidDescriptorArgs(args) =>
    /\ pc \in {"parsed", "encoded"} => IsOk(parsed) /\ parsed.obj = args
    /\ pc = "encoded" => IsOk(output) /\ output.obj = data

C6_Witness ==
  /\ pc = "encoded"
  /\ ValidDescriptorArgs(args)
  /\ Len(args.root_hash) = 2
  /\ Len(args.metadata) = 1
  /\ Len(output.obj) = 32

(***************************************************************************)
(* SpecEntry: an ICP entry is parsed from bytes and encoded.  The bytes    *)
(* are the 27-byte header, with the lengths of the payloads that follow    *)
(* and any proof_hash_count, then the five payloads; the last byte may be  *)
(* cut off.                                                                *)
(***************************************************************************)
MaxProofCount == 3

MaxProofBytes == 3

DescriptorSamples ==
  { <<>>,
    WireDescriptor(TrillianLogRootDescriptor_default),
    WireDescriptor([TrillianLogRootDescriptor_default EXCEPT
                      !.tree_size = 4, !.root_hash_size = 2,
                      !.root_hash = <<5, 6>>, !.metadata_size = 1,
                      !.metadata = <<8>>]),
    WireDescriptor([TrillianLogRootDescriptor_default EXCEPT !.version = 2]) }

LeafSamples ==
  {<<>>, LeafDoc(JSON_NO_FIELDS), LeafDoc(JSON_UNKNOWN_KEY), <<123>>}

WireEntry(f) ==
  BE(Len(f.log_url), 4) \o BE(f.leaf_index, 8)
    \o BE(Len(f.log_root_descriptor), 4) \o BE(Len(f.fw_info_leaf), 4)
    \o BE(Len(f.log_root_signature), 2) \o BE(f.proof_hash_count, 1)
    \o BE(Len(f.proof_bytes), 4)
    \o f.log_url \o f.log_root_descriptor \o f.fw_info_leaf
    \o f.log_root_signature \o f.proof_bytes

InitEntry ==
  /\ pc = "input"
  /\ \E url \in {<<>>, <<97>>, <<200>>}, d \in DescriptorSamples,
        l \in LeafSamples, sig \in {<<>>, <<9>>},
        n \in 0..MaxProofCount, pb \in BytesUpTo(MaxProofBytes),
        cut \in {0, 1} :
       args = [log_url |-> url, leaf_index |-> 2, log_root_descriptor |-> d,
               fw_info_leaf |-> l, log_root_signature |-> sig,
               proof_hash_count |-> n, proof_bytes |-> pb, cut |-> cut]
  /\ data = Slice(WireEntry(args), 0, Len(WireEntry(args)) - args.cut)
  /\ parsed = Nothing
  /\ output = Nothing
  /\ image = <<>>
  /\ result = Nothing
  /\ first = Nothing
  /\ requests = <<>>
  /\ NoLoadTest

ParseEntry ==
  /\ pc = "input"
  /\ parsed' = AftlIcpEntry_init(data)
  /\ pc' = "parsed"
  /\ UNCHANGED <<image, data, output, args, result, first, requests, load>>

EncodeEntry ==
  /\ pc = "parsed"
  /\ IsOk(parsed)
  /\ output' = AftlIcpEntry_encode(parsed.obj)
  /\ pc' = "encoded"
  /\ UNCHANGED <<image, data, parsed, args, result, first, requests, load>>

NextEntry == ParseEntry \/ EncodeEntry

SpecEntry == InitEntry /\ [][NextEntry]_vars

\* the input is a well-formed entry: nothing cut off, an ASCII URL, a valid
\* descriptor and a valid leaf (or no leaf)
ValidEntryArgs(f) ==
  /\ f.cut = 0
  /\ IsAscii(f.log_url)
  /\ f.log_root_descriptor \in
       {b \in DescriptorSamples : Len(b) >= 29 /\ UBE(Slice(b, 0, 2)) = 1}
  /\ f.fw_info_leaf \in {<<>>, LeafDoc(JSON_NO_FIELDS)}

\* C5: for a valid serialized entry b, with any proof_hash_count and
\* inc_proof_size in the header, AftlIcpEntry(b).encode() = b.
C5_EntryRoundTrip ==
  (pc = "encoded" /\ ValidEntryArgs(args)) =>
    IsOk(output) /\ output.obj = data

(***************************************************************************)
(* Merkle tree functions.  An argument that may be None is Some(x) or None.*)
(***************************************************************************)
Some(x) == Ok(x)

None == [err |-> "None", obj |-> <<>>]

IsNone(x) == x.err = "None"

\* hashlib.sha256(m).digest(): one block naming the message hashed
sha256(m) == << <<"sha256", m>> >>

rfc6962_hash_leaf(leaf) == sha256(<<0>> \o leaf)

rfc6962_hash_children(l, r) == sha256(<<1>> \o l \o r)

\* chain_border_right that folds none of the hashes
chain_border_right_NoFold(seed, proof) == seed

RECURSIVE chain_border_right(_, _)
chain_border_right(seed, proof) ==
  IF proof = <<>> THEN seed
  ELSE chain_border_right(rfc6962_hash_children(proof[1], seed), Tail(proof))

RECURSIVE Pow2(_)
Pow2(n) == IF n = 0 THEN 1 ELSE 2 * Pow2(n - 1)

\* leaf_index >> i & 1
Bit(leaf_index, i) == (leaf_index \div Pow2(i)) % 2

RECURSIVE chain_inner_from(_, _, _, _)
\* the loop of chain_inner from position i of enumerate(proof)
chain_inner_from(seed, proof, leaf_index, i) ==
  IF i >= Len(proof) THEN seed
  ELSE chain_inner_from(
         IF Bit(leaf_index, i) = 0
         THEN rfc6962_hash_children(seed, proof[i + 1])
         ELSE rfc6962_hash_children(proof[i + 1], seed),
         proof, leaf_index, i + 1)

\* chain_inner that puts the proof hash on the left at every step
chain_inner_AlwaysLeft(seed, proof, leaf_index) ==
  chain_border_right(seed, proof)

chain_inner(seed, proof, leaf_index) ==
  chain_inner_from(seed, proof, leaf_index, 0)

RECURSIVE Xor(_, _)
\* a ^ b for a, b >= 0
Xor(a, b) ==
  IF a = 0 /\ b = 0 THEN 0
  ELSE (((a % 2) + (b % 2)) % 2) + 2 * Xor(a \div 2, b \div 2)

RECURSIVE bit_length(_)
bit_length(x) == IF x = 0 THEN 0 ELSE 1 + bit_length(x \div 2)

ERR_LEAF_INDEX == "Invalid leaf_index value"

ERR_TREE_SIZE == "Invalid tree_size value"

ERR_INDEX_GE_SIZE == "leaf_index cannot be equal or larger than tree_size"

ERR_NO_PROOF == "Inclusion proof not provided."

ERR_NO_LEAF_HASH == "No leaf hash provided."

\* root_from_icp without the check of leaf_hash
root_from_icp_NoLeafHashCheck(leaf_index, tree_size, proof, leaf_hash) ==
  IF leaf_index < 0 THEN Err(ERR_LEAF_INDEX)
  ELSE IF tree_size < 0 THEN Err(ERR_TREE_SIZE)
  ELSE IF leaf_index >= tree_size THEN Err(ERR_INDEX_GE_SIZE)
  ELSE IF IsNone(proof) THEN Err(ERR_NO_PROOF)
  ELSE LET inner == bit_length(Xor(leaf_index, tree_size - 1))
           res   == chain_inner(leaf_hash.obj,
                                Slice(proof.obj, 0, inner), leaf_index)
       IN  Ok(chain_border_right(res, SliceFrom(proof.obj, inner)))

root_from_icp(leaf_index, tree_size, proof, leaf_hash) ==
  IF leaf_index < 0 THEN Err(ERR_LEAF_INDEX)
  ELSE IF tree_size < 0 THEN Err(ERR_TREE_SIZE)
  ELSE IF leaf_index >= tree_size THEN Err(ERR_INDEX_GE_SIZE)
  ELSE IF IsNone(proof) THEN Err(ERR_NO_PROOF)
  ELSE IF IsNone(leaf_hash) THEN Err(ERR_NO_LEAF_HASH)
  ELSE LET inner == bit_length(Xor(leaf_index, tree_size - 1))
           res   == chain_inner(leaf_hash.obj,
                                Slice(proof.obj, 0, inner), leaf_index)
       IN  Ok(chain_border_right(res, SliceFrom(proof.obj, inner)))

(***************************************************************************)
(* The Merkle tree of RFC 6962, section 2.1: the tree hash MTH of a list   *)
(* of leaves and the audit path PATH of leaf m (counted from 0).           *)
(***************************************************************************)
RECURSIVE SplitPoint(_, _)
\* the largest power of two smaller than n, searched from k
SplitPoint(n, k) == IF 2 * k < n THEN SplitPoint(n, 2 * k) ELSE k

RECURSIVE MTH(_)
MTH(D) ==
  IF Len(D) = 1 THEN rfc6962_hash_leaf(D[1])
  ELSE LET k == SplitPoint(Len(D), 1)
       IN  rfc6962_hash_children(MTH(SubSeq(D, 1, k)),
                                 MTH(SubSeq(D, k + 1, Len(D))))

RECURSIVE PATH(_, _)
PATH(m, D) ==
  IF Len(D) = 1 THEN <<>>
  ELSE LET k == SplitPoint(Len(D), 1)
       IN  IF m < k
           THEN Append(PATH(m, SubSeq(D, 1, k)), MTH(SubSeq(D, k + 1, Len(D))))
           ELSE Append(PATH(m - k, SubSeq(D, k + 1, Len(D))),
                       MTH(SubSeq(D, 1, k)))

(***************************************************************************)
(* SpecMerkle: root_from_icp is called once, then again with exactly one   *)
(* of its four arguments changed.  The first arguments are either the      *)
(* inclusion proof of a leaf of a reference tree or small values around    *)
(* the preconditions.                                                      *)
(***************************************************************************)
MaxTree == 6

\* the leaves of the reference tree of size n: n different leaves
Leaves(n) == [k \in 1..n |-> <<k>>]

\* a digest that is no node of a reference tree
ForeignDigest == rfc6962_hash_leaf(<<99>>)

\* the inclusion proofs of the leaves of the reference trees
ProofArgs ==
  UNION { { [leaf_index |-> i, tree_size |-> n,
             proof |-> Some(PATH(i, Leaves(n))),
             leaf_hash |-> Some(rfc6962_hash_leaf(Leaves(n)[i + 1])),
             tree |-> n] : i \in 0..(n - 1) } : n \in 1..MaxTree }

\* arguments around the preconditions; tree = 0: of no reference tree
EdgeArgs ==
  [leaf_index : -1..2, tree_size : -1..2,
   proof : {None, Some(<<>>), Some(<<ForeignDigest>>)},
   leaf_hash : {None, Some(ForeignDigest)}, tree : {0}]

InitMerkle ==
  /\ pc = "input"
  /\ args \in ProofArgs \cup EdgeArgs
  /\ result = Nothing
  /\ first = Nothing
  /\ requests = <<>>
  /\ NoLoadTest
  /\ image = <<>>
  /\ data = <<>>
  /\ parsed = Nothing
  /\ output = Nothing

RootFromIcp ==
  /\ pc \in {"input", "changed"}
  /\ result' = root_from_icp(args.leaf_index, args.tree_size, args.proof,
                             args.leaf_hash)
  /\ pc' = IF pc = "input" THEN "done" ELSE "done2"
  /\ UNCHANGED <<image, data, parsed, output, args, first, requests, load>>

\* the arguments of the first call are kept and one of them is changed
Changed(a) ==
  /\ pc = "done"
  /\ args.tree > 0
  /\ a # args
  /\ first' = [args |-> args, result |-> result]
  /\ args' = a
  /\ pc' = "changed"
  /\ UNCHANGED <<image, data, parsed, output, result, requests, load>>

ChangeLeaf ==
  \E h \in {ForeignDigest, rfc6962_hash_leaf(<<1>>), rfc6962_hash_leaf(<<2>>)} :
    Changed([args EXCEPT !.leaf_hash = Some(h)])

ChangeProof ==
  \E k \in 1..Len(args.proof.obj), h \in {ForeignDigest, args.leaf_hash.obj} :
    Changed([args EXCEPT !.proof = Some([args.proof.obj EXCEPT ![k] = h])])

ChangeLeafIndex ==
  \E i \in 0..(args.tree_size - 1) : Changed([args EXCEPT !.leaf_index = i])

ChangeTreeSize ==
  \E n \in (args.leaf_index + 1)..(MaxTree + 1) :
    Changed([args EXCEPT !.tree_size = n])

\* the audit path is cut to one of its proper prefixes
TruncateProof ==
  \E k \in 0..(Len(args.proof.obj) - 1) :
    Changed([args EXCEPT !.proof = Some(Slice(args.proof.obj, 0, k))])

\* hashes are appended to the audit path
ExtendProof ==
  /\ args.tree > 0
  /\ \E extra \in {<<ForeignDigest>>, <<args.leaf_hash.obj>>,
                   <<MTH(Leaves(args.tree)), ForeignDigest>>} :
       Changed([args EXCEPT !.proof = Some(args.proof.obj \o extra)])

NextMerkle ==
  \/ RootFromIcp
  \/ ChangeLeaf
  \/ ChangeProof
  \/ ChangeLeafIndex
  \/ ChangeTreeSize
  \/ TruncateProof
  \/ ExtendProof

SpecMerkle == InitMerkle /\ [][NextMerkle]_vars

\* C7: for every tree size n >= 1 and leaf index i < n, root_from_icp on the
\* reference tree's inclusion proof of leaf i and hash_leaf(leaf_i) returns
\* the reference tree's root.
C7_RootOfReferenceProof ==
  (pc = "done" /\ args.tree > 0) =>
    IsOk(result) /\ result.obj = MTH(Leaves(args.tree))

C7_Witness ==
  /\ pc = "done"
  /\ args.tree = 4
  /\ args.leaf_index = 2
  /\ args.proof.obj =
       << rfc6962_hash_leaf(<<4>>),
          rfc6962_hash_children(rfc6962_hash_leaf(<<1>>),
                                rfc6962_hash_leaf(<<2>>)) >>
  /\ result.obj = MTH(Leaves(4))

\* C8: from a valid (i, n, proof, leaf), changing one of the proof, the
\* leaf, the leaf index or the tree size to another value that passes the
\* preconditions changes the value root_from_icp returns.
C8_AnyChangeChangesRoot ==
  pc = "done2" => result # first.result

\* the errors whose precondition the arguments break
BrokenPreconditions(a) ==
  {e \in {ERR_LEAF_INDEX, ERR_TREE_SIZE, ERR_INDEX_GE_SIZE, ERR_NO_PROOF,
          ERR_NO_LEAF_HASH} :
     \/ e = ERR_LEAF_INDEX /\ a.leaf_index < 0
     \/ e = ERR_TREE_SIZE /\ a.tree_size <= 0
     \/ e = ERR_INDEX_GE_SIZE /\ a.leaf_index >= a.tree_size
     \/ e = ERR_NO_PROOF /\ IsNone(a.proof)
     \/ e = ERR_NO_LEAF_HASH /\ IsNone(a.leaf_hash)}

\* C9: root_from_icp raises whenever leaf_index < 0, tree_size <= 0,
\* leaf_index >= tree_size, the path is None or the leaf hash is None, the
\* error raised is the one of a precondition that is broken, the five errors
\* differ, and a hash is returned only when all five preconditions hold.
C9_PreconditionErrors ==
  /\ Cardinality({ERR_LEAF_INDEX, ERR_TREE_SIZE, ERR_INDEX_GE_SIZE,
                  ERR_NO_PROOF, ERR_NO_LEAF_HASH}) = 5
  /\ pc \in {"done", "done2"} =>
       IF BrokenPreconditions(args) = {}
       THEN IsOk(result)
       ELSE result.err \in BrokenPreconditions(args)

C9_Witness ==
  /\ pc = "done"
  /\ args.tree_size = 0
  /\ args.leaf_index = 0
  /\ ~IsNone(args.proof)
  /\ IsNone(args.leaf_hash)
  /\ result.err = ERR_INDEX_GE_SIZE

(***************************************************************************)
(* Verification of an entry.  A signature is one block naming the key and  *)
(* the message signed; openssl accepts it under that key for that message  *)
(* alone.                                                                  *)
(***************************************************************************)
Sign(key, message) == << <<"sig", key, message>> >>

check_signature(log_root, log_root_sig, transparency_log_pub_key) ==
  log_root_sig = Sign(transparency_log_pub_key, log_root)

\* verify_icp that does not check the signature
AftlIcpEntry_verify_icp_NoSignature(e, transparency_log_pub_key) ==
  LET leaf_hash == rfc6962_hash_leaf(FirmwareInfoLeaf_encode(e.fw_info_leaf))
      calc_root == root_from_icp(e.leaf_index, e.log_root_descriptor.tree_size,
                                 Some(e.proofs), Some(leaf_hash))
  IN  IF transparency_log_pub_key = "" THEN Ok(FALSE)
      ELSE IF ~IsOk(calc_root) THEN Err("AftlError")
      ELSE Ok(calc_root.obj = e.log_root_descriptor.root_hash)

AftlIcpEntry_verify_icp(e, transparency_log_pub_key) ==
  LET leaf_hash == rfc6962_hash_leaf(FirmwareInfoLeaf_encode(e.fw_info_leaf))
      calc_root == root_from_icp(e.leaf_index, e.log_root_descriptor.tree_size,
                                 Some(e.proofs), Some(leaf_hash))
      log_root  == TrillianLogRootDescriptor_encode(e.log_root_descriptor)
  IN  IF transparency_log_pub_key = "" THEN Ok(FALSE)
      ELSE IF ~IsOk(calc_root) THEN Err("AftlError")
      ELSE IF calc_root.obj # e.log_root_descriptor.root_hash THEN Ok(FALSE)
      ELSE IF ~IsOk(log_root) THEN log_root
      ELSE Ok(check_signature(log_root.obj, e.log_root_signature,
                              transparency_log_pub_key))

(***************************************************************************)
(* SpecVerify: verify_icp on the entry a log's response fills in: the      *)
(* leaf is at index i of a reference tree of size n; the response may name *)
(* another index or tree size, a wrong root, a tampered path, and carry a  *)
(* signature by another key or over another log root.                      *)
(***************************************************************************)
\* the reference tree of size n with the firmware info leaf at index i
TreeWith(n, i, leaf) == [k \in 1..n |-> IF k = i + 1 THEN leaf ELSE <<k>>]

TamperedPath(p) == IF p = <<>> THEN <<ForeignDigest>>
                   ELSE [p EXCEPT ![1] = ForeignDigest]

InitVerify ==
  /\ pc = "input"
  /\ \E n \in 1..MaxTree, i \in 0..(MaxTree - 1), di \in {0, 1},
        dn \in {0, 1}, path \in {"ok", "tampered"},
        root \in {"ok", "foreign", "none"},
        sig \in {"ok", "otherkey", "othermsg", "none"},
        key \in {"", "k1", "k2"} :
       /\ i < n
       /\ LET leaf  == LeafDoc(JSON_NO_FIELDS)
              D     == TreeWith(n, i, leaf)
              lr    == LogRootBytes(
                         n + dn,
                         CASE root = "ok" -> MTH(D)
                           [] root = "foreign" -> ForeignDigest
                           [] OTHER -> <<>>,
                         <<>>)
              e     == AftlIcpEntry_translate_response(
                         <<97>>, i + di, lr, leaf,
                         CASE sig = "ok" -> Sign("k1", lr)
                           [] sig = "otherkey" -> Sign("k2", lr)
                           [] sig = "othermsg" ->
                                Sign("k1", LogRootBytes(n + 1 - dn, <<>>, <<>>))
                           [] OTHER -> <<>>,
                         IF path = "ok" THEN PATH(i, D)
                         ELSE TamperedPath(PATH(i, D)))
          IN  args = [entry |-> e.obj, key |-> key]
  /\ result = Nothing
  /\ first = Nothing
  /\ requests = <<>>
  /\ NoLoadTest
  /\ image = <<>>
  /\ data = <<>>
  /\ parsed = Nothing
  /\ output = Nothing

InitVerifyDefault ==
  /\ pc = "input"
  /\ args \in [entry : {AftlIcpEntry_default}, key : {"", "k1"}]
  /\ result = Nothing
  /\ first = Nothing
  /\ requests = <<>>
  /\ NoLoadTest
  /\ image = <<>>
  /\ data = <<>>
  /\ parsed = Nothing
  /\ output = Nothing

VerifyIcp ==
  /\ pc = "input"
  /\ result' = AftlIcpEntry_verify_icp(args.entry, args.key)
  /\ pc' = "done"
  /\ UNCHANGED <<image, data, parsed, output, args, first, requests, load>>

NextVerify == VerifyIcp

SpecVerify == (InitVerify \/ InitVerifyDefault) /\ [][NextVerify]_vars

\* the leaf hash of the stored leaf bytes, folded along the audit path for
\* leaf_index and the descriptor's tree_size, is the descriptor's root_hash
ChainsToRoot(e) ==
  LET r == root_from_icp(
             e.leaf_index, e.log_root_descriptor.tree_size, Some(e.proofs),
             Some(rfc6962_hash_leaf(e.fw_info_leaf.bytes)))
  IN  IsOk(r) /\ r.obj = e.log_root_descriptor.root_hash

\* the signature is valid over the descriptor's encoded bytes under the key
SignatureValid(e, key) ==
  /\ key # ""
  /\ e.log_root_signature
       = Sign(key, TrillianLogRootDescriptor_pack(e.log_root_descriptor))

\* C10: verify_icp returns true if and only if the leaf hash chains through
\* the audit path to the descriptor's root_hash, the log root signature is
\* valid over the descriptor's encoded bytes under the given key, the
\* descriptor is self-consistent and the entry is self-consistent.
C10_VerifyIcpIffAllFour ==
  pc = "done" =>
    ((result = Ok(TRUE)) <=>
       /\ ChainsToRoot(args.entry)
       /\ SignatureValid(args.entry, args.key)
       /\ TrillianLogRootDescriptor_is_valid(args.entry.log_root_descriptor)
       /\ AftlIcpEntry_is_valid(args.entry))

C10_Witness ==
  /\ pc = "done"
  /\ result = Ok(TRUE)
  /\ args.entry.log_root_descriptor.tree_size = 4
  /\ args.entry.leaf_index = 2
  /\ Len(args.entry.proofs) = 2

C10_WitnessFalse ==
  /\ pc = "done"
  /\ result = Ok(FALSE)
  /\ ChainsToRoot(args.entry)
  /\ args.key = "k1"

\* C11: for every structurally valid entry and every key, verify_icp ends by
\* returning a boolean: a failing check, a leaf_index that is not below the
\* descriptor's tree_size included, yields false and never an exception.
C11_VerifyIcpReturnsBoolean ==
  (pc = "done" /\ AftlIcpEntry_is_valid(args.entry))
    => result \in {Ok(TRUE), Ok(FALSE)}

(***************************************************************************)
(* base64.b64decode of the text of a JSON string.  A text of one element   *)
(* is the base64 text of a digest (a real text has a multiple of four      *)
(* characters).                                                            *)
(***************************************************************************)
b64encode(d) == << [b64 |-> d] >>

\* the value of a character of the alphabet; '=' counts as 0
B64Index(c) ==
  IF c >= 65 /\ c <= 90 THEN c - 65
  ELSE IF c >= 97 /\ c <= 122 THEN c - 71
  ELSE IF c >= 48 /\ c <= 57 THEN c + 4
  ELSE IF c = 43 THEN 62
  ELSE IF c = 47 THEN 63
  ELSE 0

\* the one to three bytes of four characters
b64decode_quad(q) ==
  LET pad == IF q[3] = 61 THEN 2 ELSE IF q[4] = 61 THEN 1 ELSE 0
      v   == ((B64Index(q[1]) * 64 + B64Index(q[2])) * 64 + B64Index(q[3]))
               * 64 + B64Index(q[4])
  IN  Slice(BE(v, 3), 0, 3 - pad)

RECURSIVE b64decode_quads(_)
b64decode_quads(t) ==
  IF t = <<>> THEN <<>>
  ELSE b64decode_quad(Slice(t, 0, 4)) \o b64decode_quads(SliceFrom(t, 4))

b64decode(t) ==
  IF Len(t) = 1 THEN Ok(t[1].b64)
  ELSE IF Len(t) % 4 # 0 THEN Err("binascii.Error")
  ELSE Ok(b64decode_quads(t))

\* dict.get(key), decoded when it is not empty; None when the key is absent
FirmwareInfoLeaf_lookup_base64_attribute(l, key) ==
  IF key \notin DOMAIN l.dict THEN None
  ELSE IF l.dict[key] = <<>> THEN Some(<<>>)
  ELSE b64decode(l.dict[key])

FirmwareInfoLeaf_vbmeta_hash(l) ==
  FirmwareInfoLeaf_lookup_base64_attribute(l, "vbmeta_hash")

(***************************************************************************)
(* AftlIcpEntry.verify_vbmeta_image and AftlImage.verify_vbmeta_image.     *)
(* An exception of verify_icp or of the base64 decoding is the result.     *)
(***************************************************************************)
\* verify_vbmeta_image that does not compare the vbmeta hash
AftlIcpEntry_verify_vbmeta_image_NoHash(e, vbmeta_image, transparency_log_pub_key) ==
  IF vbmeta_image = <<>> THEN Ok(FALSE)
  ELSE AftlIcpEntry_verify_icp(e, transparency_log_pub_key)

AftlIcpEntry_verify_vbmeta_image(e, vbmeta_image, transparency_log_pub_key) ==
  LET hash_matches(h) ==
        IF IsNone(h) THEN Ok(FALSE)
        ELSE IF ~IsOk(h) THEN h
        ELSE Ok(h.obj = sha256(vbmeta_image))
      and_hash(v) ==
        IF ~IsOk(v) THEN v
        ELSE IF ~v.obj THEN Ok(FALSE)
        ELSE hash_matches(FirmwareInfoLeaf_vbmeta_hash(e.fw_info_leaf))
  IN  IF vbmeta_image = <<>> THEN Ok(FALSE)
      ELSE and_hash(AftlIcpEntry_verify_icp(e, transparency_log_pub_key))

RECURSIVE AftlImage_entry_verified(_, _, _)
\* the inner loop: the entry verifies under one of the keys, tried in order
AftlImage_entry_verified(icp_entry, vbmeta_image, pub_keys) ==
  IF pub_keys = <<>> THEN Ok(FALSE)
  ELSE LET next(v) ==
             IF ~IsOk(v) THEN v
             ELSE IF v.obj THEN Ok(TRUE)
             ELSE AftlImage_entry_verified(icp_entry, vbmeta_image,
                                           Tail(pub_keys))
       IN  next(AftlIcpEntry_verify_vbmeta_image(icp_entry, vbmeta_image,
                                                 pub_keys[1]))

RECURSIVE AftlImage_icp_verified(_, _, _)
\* the outer loop: the number of entries that verified
AftlImage_icp_verified(icp_entries, vbmeta_image, pub_keys) ==
  IF icp_entries = <<>> THEN Ok(0)
  ELSE LET count(v, rest) ==
             IF ~IsOk(v) THEN v
             ELSE IF ~IsOk(rest) THEN rest
             ELSE Ok((IF v.obj THEN 1 ELSE 0) + rest.obj)
       IN  count(AftlImage_entry_verified(icp_entries[1], vbmeta_image,
                                          pub_keys),
                 AftlImage_icp_verified(Tail(icp_entries), vbmeta_image,
                                        pub_keys))

AftlImage_verify_vbmeta_image(img, vbmeta_image, transparency_log_pub_keys) ==
  LET all(n) == IF ~IsOk(n) THEN n ELSE Ok(n.obj = Len(img.icp_entries))
  IN  IF transparency_log_pub_keys = <<>> \/ img.icp_entries = <<>>
      THEN Ok(FALSE)
      ELSE all(AftlImage_icp_verified(img.icp_entries, vbmeta_image,
                                      transparency_log_pub_keys))

(***************************************************************************)
(* SpecImage: an image of entries that logs returned for a firmware is     *)
(* verified against a vbmeta image under a list of keys, one entry under   *)
(* one key (VerifyEntryVbmeta) or the whole image (VerifyImage).           *)
(***************************************************************************)
MaxImageEntries == 2

MaxKeys == 2

VbmetaSamples == {<<1, 1>>, <<2>>}

\* the leaf a log stores for the vbmeta image
LeafFor(vbmeta_image) == HashDoc(b64encode(sha256(vbmeta_image)))

\* the entry of a log that signs with key and stores leaf at index 1 of 2
LogEntry(key, leaf) ==
  LET lr == LogRootBytes(2, MTH(TreeWith(2, 1, leaf)), <<>>)
  IN  AftlIcpEntry_translate_response(
        <<97>>, 1, lr, leaf, Sign(key, lr), PATH(1, TreeWith(2, 1, leaf))).obj

\* entries of two logs for one vbmeta image, of a log for the other image,
\* of a log that stores no vbmeta hash, of a log whose key is not listed,
\* and the default entry
ImageEntryPool ==
  { LogEntry("k1", LeafFor(<<1, 1>>)), LogEntry("k2", LeafFor(<<1, 1>>)),
    LogEntry("k1", LeafFor(<<2>>)), LogEntry("k1", LeafDoc(JSON_NO_FIELDS)),
    LogEntry("k3", LeafFor(<<1, 1>>)), AftlIcpEntry_default }

SeqsUpTo(S, n) == UNION {[1..m -> S] : m \in 0..n}

InitImage ==
  /\ pc = "input"
  /\ \E es \in SeqsUpTo(ImageEntryPool, MaxImageEntries),
        ks \in SeqsUpTo({"k1", "k2"}, MaxKeys),
        v \in VbmetaSamples \cup {<<>>} :
       /\ image = [image_header |->
                     [AftlImageHeader_default EXCEPT !.icp_count = Len(es)],
                   icp_entries |-> es]
       /\ args = [vbmeta_image |-> v, keys |-> ks]
  /\ data = <<>>
  /\ parsed = Nothing
  /\ output = Nothing
  /\ result = Nothing
  /\ first = Nothing
  /\ requests = <<>>
  /\ NoLoadTest

VerifyEntryVbmeta ==
  /\ pc = "input"
  /\ \E k \in 1..Len(image.icp_entries), j \in 1..Len(args.keys) :
       /\ first' = [entry |-> image.icp_entries[k], key |-> args.keys[j]]
       /\ result' = AftlIcpEntry_verify_vbmeta_image(
                      image.icp_entries[k], args.vbmeta_image, args.keys[j])
  /\ pc' = "entry_done"
  /\ UNCHANGED <<image, data, parsed, output, args, requests, load>>

VerifyImage ==
  /\ pc = "input"
  /\ result' = AftlImage_verify_vbmeta_image(image, args.vbmeta_image,
                                             args.keys)
  /\ pc' = "image_done"
  /\ UNCHANGED <<image, data, parsed, output, args, first, requests, load>>

NextImage == VerifyEntryVbmeta \/ VerifyImage

SpecImage == InitImage /\ [][NextImage]_vars

\* SHA-256 of the vbmeta bytes equals the leaf's vbmeta_hash
VbmetaHashMatches(e, vbmeta_image) ==
  FirmwareInfoLeaf_vbmeta_hash(e.fw_info_leaf) = Some(sha256(vbmeta_image))

\* C12: verify_vbmeta_image of an entry returns true only if verify_icp is
\* true and SHA-256 of the vbmeta bytes equals the leaf's vbmeta_hash; with a
\* vbmeta whose hash differs it returns false even when the Merkle proof and
\* the signature are valid.
C12_VbmetaHashRequired ==
  pc = "entry_done" =>
    /\ result = Ok(TRUE) =>
         /\ AftlIcpEntry_verify_icp(first.entry, first.key) = Ok(TRUE)
         /\ VbmetaHashMatches(first.entry, args.vbmeta_image)
    /\ ( /\ AftlIcpEntry_verify_icp(first.entry, first.key) = Ok(TRUE)
         /\ ~VbmetaHashMatches(first.entry, args.vbmeta_image) )
         => result = Ok(FALSE)

\* a valid proof and signature, and the hash of another vbmeta image
C12_Witness ==
  /\ pc = "entry_done"
  /\ AftlIcpEntry_verify_icp(first.entry, first.key) = Ok(TRUE)
  /\ first.entry.fw_info_leaf.bytes = LeafFor(<<2>>)
  /\ args.vbmeta_image = <<1, 1>>
  /\ result = Ok(FALSE)

C12_WitnessTrue ==
  /\ pc = "entry_done"
  /\ result = Ok(TRUE)
  /\ first.key = "k2"

\* the entry verifies against the vbmeta under at least one of the keys
VerifiesUnderSomeKey(e, vbmeta_image, keys) ==
  \E j \in 1..Len(keys) :
    AftlIcpEntry_verify_vbmeta_image(e, vbmeta_image, keys[j]) = Ok(TRUE)

EveryEntryVerifies ==
  /\ image.icp_entries # <<>>
  /\ args.keys # <<>>
  /\ \A k \in 1..Len(image.icp_entries) :
       VerifiesUnderSomeKey(image.icp_entries[k], args.vbmeta_image,
                            args.keys)

\* C13: the image's verify_vbmeta_image returns true if and only if the
\* entry list is not empty, the key list is not empty and every entry
\* verifies against the vbmeta under at least one of the keys; one entry
\* that verifies under no key makes the result false, whatever the order.
C13_VerifyImageIffEveryEntry ==
  pc = "image_done" => result = Ok(EveryEntryVerifies)

\* the half that holds: true is returned in no other case
VerifyImageTrueOnlyIfEveryEntry ==
  pc = "image_done" => (result = Ok(TRUE) <=> EveryEntryVerifies)

(***************************************************************************)
(* Aftl.request_inclusion_proof and Aftl.make_icp_from_vbmeta.  What a log *)
(* does with a request is its answer: "sign" (the signing helper fails     *)
(* before anything is sent), "transport" (the RPC fails) or the fields of  *)
(* a response.  A manufacturer key that is not of 4096 bits fails every    *)
(* request before it is sent.                                              *)
(***************************************************************************)
RSA_KEY_BITS == 4096

\* the request goes out to the log: neither the key check nor the signing
\* raised
Aftl_request_sent(key_bits, answer) ==
  key_bits = RSA_KEY_BITS /\ answer.kind # "sign"

Aftl_request_inclusion_proof(transparency_log_config, key_bits, answer) ==
  IF key_bits # RSA_KEY_BITS THEN Err("AftlError")
  ELSE IF answer.kind = "sign" THEN Err("AftlError")
  ELSE IF answer.kind = "transport" THEN Err("AftlError")
  ELSE AftlIcpEntry_translate_response(
         transparency_log_config.target, answer.leaf_index, answer.log_root,
         answer.fw_info_leaf, answer.log_root_signature, answer.hashes)

\* one turn of the loop over the log configs: the image after it, and the
\* exception that leaves the loop ("none" when the loop goes on)
Aftl_make_icp_request(aftl_image, log_config, vbmeta_image, key_bits, answer) ==
  LET verified(icp_entry, v) ==
        IF v.err = "AftlError" THEN [image |-> aftl_image, raised |-> "none"]
        ELSE IF ~IsOk(v) THEN [image |-> aftl_image, raised |-> v.err]
        ELSE [image |-> AftlImage_add_icp_entry(aftl_image, icp_entry),
              raised |-> "none"]
      requested(r) ==
        IF r.err = "AftlError" THEN [image |-> aftl_image, raised |-> "none"]
        ELSE IF ~IsOk(r) THEN [image |-> aftl_image, raised |-> r.err]
        ELSE verified(r.obj,
                      AftlIcpEntry_verify_vbmeta_image(
                        r.obj, vbmeta_image, log_config.pub_key))
  IN  requested(Aftl_request_inclusion_proof(log_config, key_bits, answer))

\* the turn for the vbmeta image get_vbmeta_image returned: with None the
\* first statement of request_inclusion_proof, hashlib.sha256(vbmeta_image),
\* raises TypeError
Aftl_make_icp_turn(aftl_image, log_config, vbmeta, key_bits, answer) ==
  IF IsNone(vbmeta) THEN [image |-> aftl_image, raised |-> "TypeError"]
  ELSE Aftl_make_icp_request(aftl_image, log_config, vbmeta.obj, key_bits,
                             answer)

\* avbtool.round_to_multiple
round_to_multiple(number, size) ==
  IF number % size = 0 THEN number ELSE number + size - (number % size)

\* the pub_key of every log config, in order
Aftl_keys(transparency_log_configs) ==
  [k \in 1..Len(transparency_log_configs) |->
     transparency_log_configs[k].pub_key]

\* the part of make_icp_from_vbmeta after the loop: what is returned or
\* raised, and the bytes the binary output file holds.  The padding is
\* written as a str, which a binary file refuses with TypeError.
Aftl_make_icp_finish(aftl_image, vbmeta_image, footer, transparency_log_configs, padding_size) ==
  LET write(encoded) ==
        IF ~IsOk(encoded)
        THEN [result |-> encoded, written |-> vbmeta_image]
        ELSE IF padding_size > 0
        THEN [result |-> Err("TypeError"),
              written |-> vbmeta_image \o encoded.obj]
        ELSE [result |-> Ok(TRUE), written |-> vbmeta_image \o encoded.obj]
      check(verified) ==
        IF ~IsOk(verified) THEN [result |-> verified, written |-> <<>>]
        ELSE IF ~verified.obj THEN [result |-> Ok(FALSE), written |-> <<>>]
        ELSE IF footer THEN [result |-> Ok(FALSE), written |-> <<>>]
        ELSE write(AftlImage_encode(aftl_image))
  IN  IF aftl_image.image_header.icp_count # Len(transparency_log_configs)
      THEN [result |-> Ok(FALSE), written |-> <<>>]
      ELSE IF ~AftlImage_is_valid(aftl_image)
      THEN [result |-> Ok(FALSE), written |-> <<>>]
      ELSE check(AftlImage_verify_vbmeta_image(
                   aftl_image, vbmeta_image, Aftl_keys(transparency_log_configs)))

(***************************************************************************)
(* SpecMake: make_icp_from_vbmeta for a vbmeta image, with or without a    *)
(* footer, over up to MaxLogs log configs; every log has its answer.  The  *)
(* variable requests records, per call of request_inclusion_proof, the log *)
(* and whether the request went out to it.                                 *)
(***************************************************************************)
MaxLogs == 2

\* two logs, each with its own key
LogConfigs ==
  { [target |-> <<97>>, pub_key |-> "k1"],
    [target |-> <<98>>, pub_key |-> "k2"] }

OtherKey(key) == IF key = "k1" THEN "k2" ELSE "k1"

AnswerKinds ==
  {"good", "otherkey", "wronghash", "badindex", "badversion", "short",
   "sign", "transport"}

\* the response of a log that stores leaf at index 1 of 2 and signs with key
Response(key, leaf, leaf_index, log_root) ==
  [kind |-> "response", leaf_index |-> leaf_index, log_root |-> log_root,
   fw_info_leaf |-> leaf, log_root_signature |-> Sign(key, log_root),
   hashes |-> PATH(1, TreeWith(2, 1, leaf))]

\* the answer of a kind from the log of a config, for the vbmeta image:
\* good; signed with the other log's key; the leaf of another vbmeta image;
\* a leaf index that is the tree size; a log root of version 2; a log root
\* of two bytes; no response
Answer(kind, log_config, vbmeta_image) ==
  LET leaf == LeafFor(vbmeta_image)
      lr   == LogRootBytes(2, MTH(TreeWith(2, 1, leaf)), <<>>)
      lw   == LogRootBytes(2, MTH(TreeWith(2, 1, LeafFor(<<2>>))), <<>>)
  IN  CASE kind = "good" -> Response(log_config.pub_key, leaf, 1, lr)
        [] kind = "otherkey" ->
             Response(OtherKey(log_config.pub_key), leaf, 1, lr)
        [] kind = "wronghash" ->
             Response(log_config.pub_key, LeafFor(<<2>>), 1, lw)
        [] kind = "badindex" -> Response(log_config.pub_key, leaf, 2, lr)
        [] kind = "badversion" ->
             Response(log_config.pub_key, leaf, 1,
                      BE(2, 2) \o SliceFrom(lr, 2))
        [] kind = "short" -> Response(log_config.pub_key, leaf, 1, <<0, 1>>)
        [] OTHER -> [kind |-> kind]

PaddingSamples == {0, 2, 64}

\* get_vbmeta_image: the vbmeta image of the file, or None; a footer is
\* found only with a vbmeta image
InitMake ==
  /\ pc = "loop"
  /\ \E cs \in SeqsUpTo(LogConfigs, MaxLogs), footer \in BOOLEAN,
        padding_size \in PaddingSamples, key_bits \in {RSA_KEY_BITS, 2048},
        vbmeta \in {Some(<<1, 1>>), None} :
       \E ks \in [1..Len(cs) -> AnswerKinds] :
         /\ key_bits # RSA_KEY_BITS => \A k \in 1..Len(cs) : ks[k] = "good"
         /\ IsNone(vbmeta) =>
              ~footer /\ \A k \in 1..Len(cs) : ks[k] \in {"good", "transport"}
         /\ args = [vbmeta |-> vbmeta, vbmeta_image |-> vbmeta.obj,
                    footer |-> footer,
                    configs |-> cs, key_bits |-> key_bits,
                    kinds |-> ks,
                    answers |-> [k \in 1..Len(cs) |->
                                   Answer(ks[k], cs[k], <<1, 1>>)],
                    padding_size |-> padding_size]
  /\ image = AftlImage_init(<<>>).obj
  /\ requests = <<>>
  /\ NoLoadTest
  /\ data = <<>>
  /\ parsed = Nothing
  /\ output = Nothing
  /\ result = Nothing
  /\ first = Nothing

\* one turn of the loop
RequestInclusionProof ==
  /\ pc = "loop"
  /\ Len(requests) < Len(args.configs)
  /\ LET k == Len(requests) + 1
         step(r) ==
           /\ image' = r.image
           /\ pc' = IF r.raised = "none" THEN "loop" ELSE "done"
           /\ result' = IF r.raised = "none" THEN result ELSE Err(r.raised)
     IN  /\ requests' = Append(requests,
                          [target |-> args.configs[k].target,
                           sent |-> /\ ~IsNone(args.vbmeta)
                                    /\ Aftl_request_sent(args.key_bits,
                                                         args.answers[k])])
         /\ step(Aftl_make_icp_turn(image, args.configs[k], args.vbmeta,
                                    args.key_bits, args.answers[k]))
  /\ UNCHANGED <<data, parsed, output, args, first, load>>

\* the checks after the loop and the writes
FinishMake ==
  /\ pc = "loop"
  /\ Len(requests) = Len(args.configs)
  /\ LET finish(r) == result' = r.result /\ data' = r.written
     IN  finish(Aftl_make_icp_finish(image, args.vbmeta_image, args.footer,
                                     args.configs, args.padding_size))
  /\ pc' = "done"
  /\ UNCHANGED <<image, parsed, output, args, first, requests, load>>

NextMake == RequestInclusionProof \/ FinishMake

SpecMake == InitMake /\ [][NextMake]_vars

\* C14: when the vbmeta image has a footer, make_icp_from_vbmeta returns
\* false and no byte is written to the output, whatever the logs answer.
C14_FooterReturnsFalse ==
  (pc = "done" /\ args.footer) => (result = Ok(FALSE) /\ data = <<>>)

\* C15: the footer check is the first step: with a footer the operation
\* fails before any request is sent to any log.
C15_FooterBeforeRequests ==
  args.footer => \A k \in 1..Len(requests) : ~requests[k].sent

\* the entry the k-th log returned, if it returned one
ReturnedEntry(k) ==
  Aftl_request_inclusion_proof(args.configs[k], args.key_bits,
                               args.answers[k])

\* the k-th log returned an entry that verifies under that log's own key
VerifiesUnderOwnKey(k) ==
  /\ IsOk(ReturnedEntry(k))
  /\ AftlIcpEntry_verify_vbmeta_image(
       ReturnedEntry(k).obj, args.vbmeta_image, args.configs[k].pub_key)
       = Ok(TRUE)

\* C16: make_icp_from_vbmeta succeeds if and only if every configured log
\* returned an entry that verifies under that same log's key; an entry that
\* fails under its own log's key is not appended to the image and makes the
\* operation fail, even if it verifies under another configured log's key.
C16_SuccessIffOwnKey ==
  ( /\ pc = "done"
    /\ args.configs # <<>>
    /\ ~args.footer
    /\ args.padding_size = 0 )
    => /\ result = Ok(TRUE)
            <=> \A k \in 1..Len(args.configs) : VerifiesUnderOwnKey(k)
       /\ \A k \in 1..Len(args.configs) :
            ~VerifiesUnderOwnKey(k) =>
              \A j \in 1..Len(image.icp_entries) :
                image.icp_entries[j].log_url # args.configs[k].target

\* C17: a failure for one log does not stop the loop: every configured log
\* is requested, in configuration order, and the operation returns false
\* whenever the number of collected entries differs from the number of
\* configured logs.
C17_EveryLogRequested ==
  pc = "done" =>
    /\ Len(requests) = Len(args.configs)
    /\ \A k \in 1..Len(requests) :
         requests[k].target = args.configs[k].target
    /\ Len(image.icp_entries) # Len(args.configs) => result = Ok(FALSE)

\* the number of NUL bytes after total bytes for a padding size
PaddingNeeded(total, padding_size) ==
  IF padding_size > 0 THEN round_to_multiple(total, padding_size) - total
  ELSE 0

\* C18: when the operation gets to write, it succeeds and the output is
\* exactly the vbmeta bytes, the encoded image and, for padding_size > 0,
\* the NUL bytes that make the length the smallest multiple of padding_size
\* (none when it is one already); nothing is appended for padding_size = 0.
C18_OutputPadded ==
  (pc = "done" /\ (result = Ok(TRUE) \/ data # <<>>)) =>
    /\ result = Ok(TRUE)
    /\ LET out == args.vbmeta_image \o AftlImage_encode(image).obj
       IN  data = out \o [k \in 1..PaddingNeeded(Len(out), args.padding_size)
                            |-> 0]

(***************************************************************************)
(* SpecDecode: an image header or a log root descriptor is decoded from    *)
(* bytes that lay out any field values, valid or not.                      *)
(***************************************************************************)
WireHeader(f) ==
  f.magic \o BE(f.required_icp_version_major, 4)
    \o BE(f.required_icp_version_minor, 4) \o BE(f.aftl_image_size, 4)
    \o BE(f.icp_count, 2)

InitHeader ==
  /\ pc = "header"
  /\ \E magic \in {MAGIC, <<65, 70, 84, 88>>, <<97, 102, 116, 108>>},
        major \in 0..(AVB_VERSION_MAJOR + 1),
        minor \in 0..(AVB_VERSION_MINOR + 1),
        size \in {0, IMAGE_HEADER_SIZE - 1, IMAGE_HEADER_SIZE, 74},
        count \in {0, 1, MAX_ICP_COUNT}, cut \in {0, 1} :
       /\ args = [magic |-> magic, required_icp_version_major |-> major,
                  required_icp_version_minor |-> minor,
                  aftl_image_size |-> size, icp_count |-> count]
       /\ data = Slice(WireHeader(args), 0, IMAGE_HEADER_SIZE - cut)
  /\ parsed = Nothing
  /\ output = Nothing
  /\ image = <<>>
  /\ result = Nothing
  /\ first = Nothing
  /\ requests = <<>>
  /\ NoLoadTest

ParseHeader ==
  /\ pc = "header"
  /\ parsed' = AftlImageHeader_init(data)
  /\ pc' = "header_parsed"
  /\ UNCHANGED <<image, data, output, args, result, first, requests, load>>

NextDecode == ParseHeader \/ ParseDescriptor

SpecDecode == (InitHeader \/ InitRoot) /\ [][NextDecode]_vars

\* the header bytes carry a field the decoder must refuse
BadHeaderBytes(b) ==
  \/ Slice(b, 0, 4) # <<65, 70, 84, 76>>
  \/ UBE(Slice(b, 4, 8)) > AVB_VERSION_MAJOR
  \/ UBE(Slice(b, 8, 12)) > AVB_VERSION_MINOR
  \/ UBE(Slice(b, 12, 16)) < 18

\* the descriptor bytes carry a version other than 1, a root_hash_size above
\* 128, or fewer root hash or metadata bytes than the size in front of them
BadDescriptorBytes(b) ==
  LET root_hash_size == UBE(Slice(b, 10, 11))
      metadata_start == 11 + root_hash_size + 18
      metadata_size  == UBE(Slice(b, metadata_start - 2, metadata_start))
  IN  \/ UBE(Slice(b, 0, 2)) # 1
      \/ root_hash_size > 128
      \/ Len(Slice(b, 11, 11 + root_hash_size)) # root_hash_size
      \/ Len(Slice(b, metadata_start, metadata_start + metadata_size))
           # metadata_size

C19_WitnessHeader ==
  /\ pc = "header_parsed"
  /\ Len(data) = IMAGE_HEADER_SIZE
  /\ args.magic = MAGIC
  /\ args.required_icp_version_major = AVB_VERSION_MAJOR
  /\ args.required_icp_version_minor = AVB_VERSION_MINOR + 1
  /\ args.aftl_image_size = 74
  /\ parsed = Err("AftlError")

\* a header and a descriptor that are accepted
C19_WitnessAccepted ==
  \/ pc = "header_parsed" /\ IsOk(parsed) /\ parsed.obj.aftl_image_size = 74
  \/ pc = "parsed" /\ IsOk(parsed) /\ Len(parsed.obj.root_hash) = 128

\* C20: decoding an ICP entry fails when the header's inc_proof_size is not
\* a multiple of proof_hash_count (for proof_hash_count > 0); no entry is
\* produced whose proofs cover fewer bytes than inc_proof_size declares.
C20_ProofFraming ==
  pc = "parsed" =>
    /\ ( /\ args.proof_hash_count > 0
         /\ Len(args.proof_bytes) % args.proof_hash_count # 0 )
         => ~IsOk(parsed)
    /\ IsOk(parsed) /\ data # <<>>
         => SumLen(parsed.obj.proofs) >= UBE(Slice(data, 23, 27))

\* the payloads of an entry in the order of the wire format
EntryPayloads(e) ==
  << e.log_url, TrillianLogRootDescriptor_pack(e.log_root_descriptor),
     e.fw_info_leaf.bytes, e.log_root_signature, Concat(e.proofs) >>

\* C21: in the bytes AftlIcpEntry.encode() produces, the five length fields
\* and the proof count of the 27-byte header equal the lengths and the count
\* of the payloads, the payloads follow in the order log_url, descriptor,
\* leaf, signature, proofs, and the total length is get_expected_size().
C21_EncodedHeaderMatchesPayloads ==
  (pc = "encoded" /\ IsOk(output)) =>
    LET b == output.obj
        p == EntryPayloads(parsed.obj)
    IN  /\ UBE(Slice(b, 0, 4)) = Len(p[1])
        /\ UBE(Slice(b, 12, 16)) = Len(p[2])
        /\ UBE(Slice(b, 16, 20)) = Len(p[3])
        /\ UBE(Slice(b, 20, 22)) = Len(p[4])
        /\ UBE(Slice(b, 22, 23)) = Len(parsed.obj.proofs)
        /\ UBE(Slice(b, 23, 27)) = Len(p[5])
        /\ SliceFrom(b, 27) = p[1] \o p[2] \o p[3] \o p[4] \o p[5]
        /\ Len(b) = AftlIcpEntry_get_expected_size(parsed.obj)

\* an encoded entry with every payload present and a proof count that is
\* not the proof size
C21_Witness ==
  /\ pc = "encoded"
  /\ IsOk(output)
  /\ parsed.obj.log_url # <<>>
  /\ parsed.obj.fw_info_leaf.bytes # <<>>
  /\ parsed.obj.log_root_signature # <<>>
  /\ parsed.obj.log_root_descriptor.metadata # <<>>
  /\ Len(parsed.obj.proofs) = 1
  /\ Len(parsed.obj.proofs[1]) = 2

(***************************************************************************)
(* SpecLeaf: a FirmwareInfoLeaf is built from bytes, then encoded and      *)
(* measured.  The bytes are a document of one kind with optional white     *)
(* space before and after it.                                              *)
(***************************************************************************)
LeafKinds ==
  {"no_fields", "one_field", "unknown_key", "no_value", "no_fwinfo",
   "value_number", "info_number", "info_list", "not_json", "not_utf8",
   "truncated", "no_bytes"}

LeafBytes(kind) ==
  CASE kind = "no_fields"    -> LeafDoc(JSON_NO_FIELDS)
    [] kind = "one_field"    -> LeafDoc(JSON_VBMETA_HASH)
    [] kind = "unknown_key"  -> LeafDoc(JSON_UNKNOWN_KEY)
    [] kind = "no_value"     -> JSON_NO_FIELDS
    [] kind = "no_fwinfo"    -> JSON_VALUE_EMPTY
    [] kind = "value_number" -> JSON_VALUE_NUMBER
    [] kind = "info_number"  -> LeafDoc(<<53>>)
    [] kind = "info_list"    -> LeafDoc(<<91, 93>>)
    [] kind = "not_json"     -> <<123>>
    [] kind = "not_utf8"     -> <<255>>
    [] kind = "truncated"    ->
         Slice(LeafDoc(JSON_NO_FIELDS), 0, Len(LeafDoc(JSON_NO_FIELDS)) - 1)
    [] kind = "no_bytes"     -> <<>>

InitLeaf ==
  /\ pc = "leaf"
  /\ \E kind \in LeafKinds, before \in {<<>>, <<32>>, <<10, 32>>},
        after \in {<<>>, <<10>>} :
       /\ kind = "no_bytes" => before = <<>> /\ after = <<>>
       /\ args = [kind |-> kind, before |-> before, after |-> after]
       /\ data = before \o LeafBytes(kind) \o after
  /\ parsed = Nothing
  /\ output = Nothing
  /\ image = <<>>
  /\ result = Nothing
  /\ first = Nothing
  /\ requests = <<>>
  /\ NoLoadTest

BuildLeaf ==
  /\ pc = "leaf"
  /\ parsed' = FirmwareInfoLeaf_init(data)
  /\ pc' = "leaf_built"
  /\ UNCHANGED <<image, data, output, args, result, first, requests, load>>

EncodeLeaf ==
  /\ pc = "leaf_built"
  /\ IsOk(parsed)
  /\ output' = Ok(FirmwareInfoLeaf_encode(parsed.obj))
  /\ result' = Ok(FirmwareInfoLeaf_get_expected_size(parsed.obj))
  /\ pc' = "leaf_encoded"
  /\ UNCHANGED <<image, data, parsed, args, first, requests, load>>

NextLeaf == BuildLeaf \/ EncodeLeaf

SpecLeaf == InitLeaf /\ [][NextLeaf]_vars

\* the kinds whose path Value.FwInfo.info.info is absent or no object, or
\* whose object has a key outside the recognized set
RejectedLeafKinds ==
  {"unknown_key", "no_value", "no_fwinfo", "value_number", "info_number",
   "info_list"}

\* C22: a FirmwareInfoLeaf built from bytes keeps them verbatim: encode()
\* returns the input and get_expected_size() its length; the construction
\* raises when the path Value.FwInfo.info.info is absent or no object, or
\* when the object has a key outside the five recognized ones.
C22_LeafKeepsBytes ==
  /\ pc = "leaf_encoded" =>
       output = Ok(data) /\ result = Ok(Len(data))
  /\ (pc = "leaf_built" /\ args.kind \in RejectedLeafKinds) =>
       ~IsOk(parsed)

\* a leaf with white space around its document was built and encoded
C22_Witness ==
  /\ pc = "leaf_encoded"
  /\ args.kind = "one_field"
  /\ args.before # <<>>
  /\ args.after # <<>>
  /\ DOMAIN parsed.obj.dict = {"vbmeta_hash"}
  /\ output.obj = data

\* a leaf with an unknown key was refused
C22_WitnessRejected ==
  /\ pc = "leaf_built"
  /\ args.kind = "unknown_key"
  /\ parsed = Err("AftlError")

\* a leaf whose innermost value is a list was refused
C22_WitnessNotObject ==
  /\ pc = "leaf_built"
  /\ args.kind = "info_list"
  /\ parsed = Err("AttributeError")

\* p is q without some of its last hashes, or q with hashes after it
IsProperPrefix(p, q) == Len(p) < Len(q) /\ p = Slice(q, 0, Len(p))

\* the second call has the first call's valid arguments except for an audit
\* path of the wrong length
WrongLengthProof ==
  /\ pc = "done2"
  /\ args.leaf_index = first.args.leaf_index
  /\ args.tree_size = first.args.tree_size
  /\ args.leaf_hash = first.args.leaf_hash
  /\ \/ IsProperPrefix(args.proof.obj, first.args.proof.obj)
     \/ IsProperPrefix(first.args.proof.obj, args.proof.obj)

\* C23: for a valid inclusion proof of (i, n), root_from_icp on a proper
\* prefix of the audit path, or on the path with hashes appended, raises
\* nothing and returns a hash other than the root of the tree.
C23_WrongLengthGivesOtherRoot ==
  WrongLengthProof =>
    /\ IsOk(result)
    /\ result.obj # MTH(Leaves(args.tree))
    /\ result.obj # first.result.obj

\* the path of leaf 2 of 5 cut to its first hash
C23_Witness ==
  /\ WrongLengthProof
  /\ args.tree = 5
  /\ args.leaf_index = 2
  /\ Len(first.args.proof.obj) = 3
  /\ Len(args.proof.obj) = 1
  /\ IsOk(result)

\* the empty path of the only leaf of a tree with one hash appended
C23_WitnessExtended ==
  /\ WrongLengthProof
  /\ args.tree = 1
  /\ first.args.proof.obj = <<>>
  /\ Len(args.proof.obj) = 1
  /\ result.obj = rfc6962_hash_children(args.proof.obj[1], first.result.obj)

(***************************************************************************)
(* The commands info_image_icp and verify_image_icp.  A file is the vbmeta *)
(* image the AVB parser finds in it (None when it finds no VBMeta          *)
(* structure) and the bytes that follow it.  What a command writes to its  *)
(* output is a sequence of lines; a line is named by what it describes.    *)
(***************************************************************************)
Line(what, n) == [line |-> what, n |-> n]

LINE_VALIDATE == Line("The inclusion proofs for the image successfully validate.", 0)

LINE_DO_NOT_VALIDATE == Line("The inclusion proofs for the image do not validate.", 0)

\* Aftl.get_aftl_image: the image, None, or the exception that escapes
Aftl_get_aftl_image(file) ==
  LET caught(r) == IF r.err = "AftlError" THEN None ELSE r
      full(h) ==
        IF ~IsOk(h) THEN caught(h)
        ELSE caught(AftlImage_init(Slice(file.aftl, 0,
                                         h.obj.aftl_image_size)))
  IN  IF IsNone(file.vbmeta) \/ file.vbmeta.obj = <<>> THEN None
      ELSE IF Len(file.aftl) < IMAGE_HEADER_SIZE THEN None
      ELSE full(AftlImageHeader_init(Slice(file.aftl, 0, IMAGE_HEADER_SIZE)))

RECURSIVE AftlImage_print_entries(_, _)
\* the lines of the entries from number i on
AftlImage_print_entries(es, i) ==
  IF es = <<>> THEN <<>>
  ELSE <<Line("Entry", i), Line("Transparency Log", i),
         Line("Log Root Descriptor", i), Line("Firmware Info Leaf", i)>>
         \o AftlImage_print_entries(Tail(es), i + 1)

AftlImage_print_desc(img) ==
  <<Line("Android Firmware Transparency Image", 0),
    Line("AFTL image header", 0)>>
    \o AftlImage_print_entries(img.icp_entries, 1)

\* Aftl.info_image_icp: what it returns or raises, and the lines written
Aftl_info_image_icp(file) ==
  LET done(aftl_image) ==
        IF IsNone(aftl_image) THEN [result |-> Ok(FALSE), written |-> <<>>]
        ELSE IF ~IsOk(aftl_image)
             THEN [result |-> aftl_image, written |-> <<>>]
        ELSE [result |-> Ok(TRUE),
              written |-> AftlImage_print_desc(aftl_image.obj)]
  IN  done(Aftl_get_aftl_image(file))

\* Aftl.verify_image_icp: what it returns or raises, and the lines written
Aftl_verify_image_icp(file, transparency_log_pub_keys) ==
  LET verdict(verified) ==
        IF ~IsOk(verified) THEN [result |-> verified, written |-> <<>>]
        ELSE IF ~verified.obj
             THEN [result |-> Ok(FALSE),
                   written |-> <<LINE_DO_NOT_VALIDATE>>]
        ELSE [result |-> Ok(TRUE), written |-> <<LINE_VALIDATE>>]
      done(aftl_image) ==
        IF IsNone(aftl_image) THEN [result |-> Ok(FALSE), written |-> <<>>]
        ELSE IF ~IsOk(aftl_image)
             THEN [result |-> aftl_image, written |-> <<>>]
        ELSE IF IsNone(file.vbmeta) \/ file.vbmeta.obj = <<>>
             THEN [result |-> Ok(FALSE), written |-> <<>>]
        ELSE verdict(AftlImage_verify_vbmeta_image(
                       aftl_image.obj, file.vbmeta.obj,
                       transparency_log_pub_keys))
  IN  done(Aftl_get_aftl_image(file))

(***************************************************************************)
(* SpecCommand: one of the two commands runs on a file whose AFTL image    *)
(* has a header of some kind and up to MaxFileEntries entries, each of     *)
(* some kind.                                                              *)
(***************************************************************************)
MaxFileEntries == 2

\* entries that decode, one that raises AftlError (descriptor version 2),
\* and one that raises struct.error (its last byte is missing)
EntryKinds == {"log", "other_log", "default", "version2", "short"}

DecodableKinds == {"log", "other_log", "default"}

EncodedEntry(e) == AftlIcpEntry_encode(e).obj

EntryBytes(kind) ==
  CASE kind = "log"       -> EncodedEntry(LogEntry("k1", LeafFor(<<1, 1>>)))
    [] kind = "other_log" -> EncodedEntry(LogEntry("k1", LeafFor(<<2>>)))
    [] kind = "default"   -> EncodedEntry(AftlIcpEntry_default)
    [] kind = "version2"  ->
         WireEntry([leaf_index |-> 0, log_url |-> <<>>,
                    log_root_descriptor |->
                      WireDescriptor([TrillianLogRootDescriptor_default
                                        EXCEPT !.version = 2]),
                    fw_info_leaf |-> <<>>, log_root_signature |-> <<>>,
                    proof_hash_count |-> 0, proof_bytes |-> <<>>])
    [] kind = "short"     ->
         Slice(EncodedEntry(AftlIcpEntry_default), 0,
               Len(EncodedEntry(AftlIcpEntry_default)) - 1)

RECURSIVE EntriesBytes(_)
EntriesBytes(kinds) ==
  IF kinds = <<>> THEN <<>>
  ELSE EntryBytes(kinds[1]) \o EntriesBytes(Tail(kinds))

HeaderKinds == {"valid", "magic", "partial", "absent"}

\* the bytes after the vbmeta image
FileAftl(header, kinds) ==
  LET body == EntriesBytes(kinds)
      h(magic) == WireHeader([magic |-> magic,
                              required_icp_version_major |-> 1,
                              required_icp_version_minor |-> 1,
                              aftl_image_size |-> IMAGE_HEADER_SIZE + Len(body),
                              icp_count |-> Len(kinds)])
  IN  CASE header = "valid"   -> h(MAGIC) \o body
        [] header = "magic"   -> h(<<65, 70, 84, 88>>) \o body
        [] header = "partial" -> Slice(h(MAGIC), 0, IMAGE_HEADER_SIZE - 1)
        [] header = "absent"  -> <<>>

InitCommand ==
  /\ pc = "file"
  /\ \E v \in {None, Some(<<1, 1>>), Some(<<2>>)}, header \in HeaderKinds,
        kinds \in SeqsUpTo(EntryKinds, MaxFileEntries),
        ks \in {<<>>, <<"k1">>, <<"k2">>} :
       /\ \A k \in 1..(Len(kinds) - 1) : kinds[k] # "short"
       /\ header \in {"partial", "absent"} => kinds = <<>>
       /\ args = [vbmeta |-> v, header |-> header, kinds |-> kinds,
                  keys |-> ks]
       /\ data = FileAftl(header, kinds)
  /\ output = <<>>
  /\ parsed = Nothing
  /\ image = <<>>
  /\ result = Nothing
  /\ first = Nothing
  /\ requests = <<>>
  /\ NoLoadTest

InfoImageIcp ==
  /\ pc = "file"
  /\ LET r == Aftl_info_image_icp([vbmeta |-> args.vbmeta, aftl |-> data])
     IN  result' = r.result /\ output' = r.written
  /\ pc' = "info_done"
  /\ UNCHANGED <<image, data, parsed, args, first, requests, load>>

VerifyImageIcp ==
  /\ pc = "file"
  /\ LET r == Aftl_verify_image_icp([vbmeta |-> args.vbmeta, aftl |-> data],
                                    args.keys)
     IN  result' = r.result /\ output' = r.written
  /\ pc' = "verify_done"
  /\ UNCHANGED <<image, data, parsed, args, first, requests, load>>

NextCommand == InfoImageIcp \/ VerifyImageIcp

SpecCommand == InitCommand /\ [][NextCommand]_vars

\* C24: every call of verify_image_icp writes exactly one final line, the
\* 'successfully validate' or the 'do not validate' one, and returns the
\* matching boolean, also when the file has no vbmeta or no parsable AFTL
\* image.
C24_VerifyWritesOneLine ==
  pc = "verify_done" =>
    \/ IsOk(result) /\ result.obj /\ output = <<LINE_VALIDATE>>
    \/ IsOk(result) /\ ~result.obj /\ output = <<LINE_DO_NOT_VALIDATE>>

\* the first entry of the file that does not decode, 0 when all decode
RECURSIVE FirstUndecodable(_, _)
FirstUndecodable(kinds, k) ==
  IF k > Len(kinds) THEN 0
  ELSE IF kinds[k] \notin DecodableKinds THEN k
  ELSE FirstUndecodable(kinds, k + 1)

\* C25: when the AFTL image of the file has a valid header and its entry k
\* fails to decode, info_image_icp writes the description of the header and
\* of the entries before k and returns false, raising nothing.
C25_InfoPrintsUpToError ==
  ( /\ pc = "info_done"
    /\ ~IsNone(args.vbmeta)
    /\ args.header = "valid"
    /\ FirstUndecodable(args.kinds, 1) > 0 )
    => /\ result = Ok(FALSE)
       /\ output =
            AftlImage_print_desc(
              [icp_entries |->
                 [k \in 1..(FirstUndecodable(args.kinds, 1) - 1) |->
                    args.kinds[k]]])

(***************************************************************************)
(* Aftl.load_test_aftl.  process_count worker processes each call          *)
(* make_icp_from_vbmeta submission_count times and put each result on the  *)
(* result queue; the parent collects: each turn of its loop takes at most  *)
(* one result from the queue (or times out on an empty queue), then drops  *)
(* the processes that are no longer alive, until none is left.  A worker   *)
(* whose call raises ends without putting a result.  pc is the position of *)
(* the parent.                                                             *)
(***************************************************************************)
MaxProcesses == 2

MaxSubmissions == 2

Worker == [submitted |-> 0, returned |-> <<>>, alive |-> TRUE]

\* the submissions <<process, count>> whose call returns False: none, the
\* first of the first process, or the last of the last process
FailingSubmissions(p, s) ==
  IF p < 1 \/ s < 1 THEN {{}} ELSE {{}, {<<1, 1>>}, {<<p, s>>}}

InitLoad ==
  /\ pc = "start"
  /\ \E p \in 0..MaxProcesses, s \in 0..MaxSubmissions :
       \E f \in FailingSubmissions(p, s) :
         args = [process_count |-> p, submission_count |-> s, failing |-> f]
  /\ workers = <<>>
  /\ processes = {}
  /\ result_queue = <<>>
  /\ results = <<>>
  /\ image = <<>>
  /\ data = <<>>
  /\ parsed = Nothing
  /\ output = Nothing
  /\ result = Nothing
  /\ first = Nothing
  /\ requests = <<>>

\* the checks of the counts, then p.start() for every process
StartProcesses ==
  /\ pc = "start"
  /\ IF args.process_count < 1 \/ args.submission_count < 1
     THEN /\ result' = Ok(FALSE)
          /\ pc' = "done"
          /\ UNCHANGED <<workers, processes>>
     ELSE /\ workers' = [p \in 1..args.process_count |-> Worker]
          /\ processes' = 1..args.process_count
          /\ pc' = "get"
          /\ UNCHANGED result
  /\ UNCHANGED <<image, data, parsed, output, args, first, requests,
                 result_queue, results>>

\* one turn of the loop of _load_test_process_function: the call returns r
\* and the result is put on the queue
Submit(p) ==
  /\ p \in DOMAIN workers
  /\ workers[p].alive
  /\ workers[p].submitted < args.submission_count
  /\ LET r == <<p, workers[p].submitted + 1>> \notin args.failing
     IN  /\ workers' = [workers EXCEPT
                          ![p].submitted = @ + 1,
                          ![p].returned = Append(@, r)]
         /\ result_queue' = Append(result_queue, r)
  /\ UNCHANGED <<pc, image, data, parsed, output, args, result, first,
                 requests, processes, results>>

\* the call raises: the process ends with the exception
Raise(p) ==
  /\ p \in DOMAIN workers
  /\ workers[p].alive
  /\ workers[p].submitted < args.submission_count
  /\ workers' = [workers EXCEPT ![p].alive = FALSE]
  /\ UNCHANGED <<pc, image, data, parsed, output, args, result, first,
                 requests, processes, result_queue, results>>

\* a worker that ends after its first submission
Exit_AfterFirst(p) ==
  /\ p \in DOMAIN workers
  /\ workers[p].alive
  /\ workers[p].submitted >= 1
  /\ workers' = [workers EXCEPT ![p].alive = FALSE]
  /\ UNCHANGED <<pc, image, data, parsed, output, args, result, first,
                 requests, processes, result_queue, results>>

\* the loop of the worker is over: the process ends
Exit(p) ==
  /\ p \in DOMAIN workers
  /\ workers[p].alive
  /\ workers[p].submitted = args.submission_count
  /\ workers' = [workers EXCEPT ![p].alive = FALSE]
  /\ UNCHANGED <<pc, image, data, parsed, output, args, result, first,
                 requests, processes, result_queue, results>>

\* result_queue.get(timeout=1) returns a result
GetResult ==
  /\ pc = "get"
  /\ result_queue # <<>>
  /\ results' = Append(results, Head(result_queue))
  /\ result_queue' = Tail(result_queue)
  /\ pc' = "alive"
  /\ UNCHANGED <<image, data, parsed, output, args, result, first, requests,
                 workers, processes>>

\* result_queue.get(timeout=1) raises queue.Empty
GetTimeout ==
  /\ pc = "get"
  /\ result_queue = <<>>
  /\ pc' = "alive"
  /\ UNCHANGED <<image, data, parsed, output, args, result, first, requests,
                 load>>

\* the processes that are not alive are removed; the loop ends when none
\* is left
RemoveDead ==
  /\ pc = "alive"
  /\ processes' = {p \in processes : workers[p].alive}
  /\ pc' = IF processes' = {} THEN "stats" ELSE "get"
  /\ UNCHANGED <<image, data, parsed, output, args, result, first, requests,
                 workers, result_queue, results>>

\* the statistics and the return value; executions[-1] of an empty list
\* raises IndexError
Report ==
  /\ pc = "stats"
  /\ result' = IF results = <<>> THEN Err("IndexError")
               ELSE Ok(\A k \in 1..Len(results) : results[k])
  /\ pc' = "done"
  /\ UNCHANGED <<image, data, parsed, output, args, first, requests, load>>

NextLoad ==
  \/ StartProcesses
  \/ \E p \in 1..MaxProcesses : Submit(p)
  \/ \E p \in 1..MaxProcesses : Raise(p)
  \/ \E p \in 1..MaxProcesses : Exit(p)
  \/ GetResult
  \/ GetTimeout
  \/ RemoveDead
  \/ Report

SpecLoad == InitLoad /\ [][NextLoad]_vars

\* every call of every worker returns
NextLoadReturning ==
  \/ StartProcesses
  \/ \E p \in 1..MaxProcesses : Submit(p)
  \/ \E p \in 1..MaxProcesses : Exit(p)
  \/ GetResult
  \/ GetTimeout
  \/ RemoveDead
  \/ Report

\* the parent and every worker process keep running
SpecLoadFair ==
  /\ InitLoad
  /\ [][NextLoadReturning]_vars
  /\ WF_vars(StartProcesses)
  /\ \A p \in 1..MaxProcesses : WF_vars(Submit(p)) /\ WF_vars(Exit(p))
  /\ WF_vars(GetResult)
  /\ WF_vars(GetTimeout)
  /\ WF_vars(RemoveDead)
  /\ WF_vars(Report)

\* every invocation of make_icp_from_vbmeta was made and returned true
EverySubmissionTrue ==
  \A p \in 1..args.process_count :
    /\ Len(workers[p].returned) = args.submission_count
    /\ \A k \in 1..Len(workers[p].returned) : workers[p].returned[k]

\* C26: load_test_aftl returns true only if every one of the process_count
\* x submission_count invocations of make_icp_from_vbmeta returned true,
\* under every interleaving of the workers and the collection.
C26_TrueOnlyIfEverySubmissionTrue ==
  (pc = "done" /\ result = Ok(TRUE)) => EverySubmissionTrue

\* C28: when the collection loop exits, the number of collected results is
\* process_count x submission_count: every result a worker put on the queue
\* was read before the report is produced.
C28_EveryResultCollected ==
  pc \in {"stats", "done"} /\ workers # <<>> =>
    /\ result_queue = <<>>
    /\ Len(results) = args.process_count * args.submission_count

\* C29: provided every call of make_icp_from_vbmeta returns, the collection
\* loop eventually ends; every worker that has ended has made exactly
\* submission_count submissions, and the loop ends only when no worker is
\* alive.
C29_CollectionTerminates ==
  /\ <>(pc = "done")
  /\ [](\A p \in DOMAIN workers :
          ~workers[p].alive => workers[p].submitted = args.submission_count)
  /\ [](pc \in {"stats", "done"} =>
          \A p \in DOMAIN workers : ~workers[p].alive)

\* the loop has ended after two workers made two submissions each
C29_Witness ==
  /\ pc = "done"
  /\ args.process_count = 2
  /\ args.submission_count = 2
  /\ \A p \in 1..2 : workers[p].submitted = 2 /\ ~workers[p].alive
  /\ processes = {}

\* C27: make_icp_from_vbmeta writes to the output only after the entries
\* were collected, the image passed is_valid and the verification succeeded:
\* on every path that returns false or raises, no byte has been written.
C27_NoOutputUnlessSuccess ==
  (pc = "done" /\ result # Ok(TRUE)) => data = <<>>

\* C30: when get_vbmeta_image returns None, make_icp_from_vbmeta returns
\* false, sends no request to a log and writes no output; no exception
\* other than AftlError ends it.
C30_NoVbmetaReturnsFalse ==
  (pc = "done" /\ IsNone(args.vbmeta)) =>
    /\ result = Ok(FALSE)
    /\ \A k \in 1..Len(requests) : ~requests[k].sent
    /\ data = <<>>

====
